---- MODULE Spec2Model ----
(***************************************************************************)
(* MTC Assistant (M1N-W/MtcBot): the message intake and dispatch engine.   *)
(*                                                                         *)
(* Part 1 models the per-sender rate limiter, is_rate_limited, in its two  *)
(* versions (src/handlers.py and src/handlers_optimized.py), called from   *)
(* concurrent webhook worker threads.  Each call reads the clock, takes    *)
(* _rate_limit_lock, runs the critical section and releases the lock.      *)
(*                                                                         *)
(* Time is counted in whole seconds.  RATE_LIMIT_MAX and RATE_LIMIT_WINDOW *)
(* are configuration read from the environment when the process starts, so *)
(* they are chosen in Init and never change: the limit is any value from   *)
(* 0 to MaxLimit, the window is MaxWindow seconds.                         *)
(*                                                                         *)
(* Part 2 models the dispatcher, handle_message, of src/handlers.py,       *)
(* src/handlers_optimized.py and src/mtc_assistant_bot.py: one inbound     *)
(* text message is taken through the empty check, the rate limiter, the    *)
(* admin and homework commands, the command loop over COMMANDS and the     *)
(* Gemini fallback to the reply.  Texts are sequences of code points, and  *)
(* the literals the code compares them with are those of the source files. *)
(***************************************************************************)
EXTENDS Integers, Sequences, FiniteSets, TLC

VARIABLES
    impl,                   \* which handlers module the process runs
    RATE_LIMIT_MAX,         \* config: messages allowed per window
    RATE_LIMIT_WINDOW,      \* config: window length, seconds
    now,                    \* the wall clock, time.time()
    ticks,                  \* how many times the clock has advanced
    _user_message_history,  \* dict user_id -> list of timestamps
    _banned_users,          \* dict user_id -> ban_until
    _rate_limit_lock,       \* the thread holding the lock, or NoThread
    pc,                     \* per worker thread: where it is in is_rate_limited
    user_id,                \* per worker thread: the argument of its call
    now_ts,                 \* per worker thread: the clock value it read
    calls,                  \* number of is_rate_limited calls started
    arrivals,               \* per sender: timestamps of the calls already served
    verdicts,               \* per sender: what each of those calls returned
    last,                   \* what the most recently served call saw and did
    hm,                     \* what handle_message did with the last inbound message
    handled,                \* number of inbound messages handled
    db,                     \* broadcast.db: whether the Firestore client is set
    line_api,               \* broadcast.line_api: whether the push client is set
    users,                  \* the active documents of the Firestore collection 'users'
    bc,                     \* the broadcast_message invocation in progress, or the last one
    broadcast_history,      \* the documents of the collection 'broadcast_history'
    broadcasts,             \* number of broadcasts started
    where,                  \* per worker thread: where it is in handle_message
    access,                 \* the last access to the limiter's dictionaries
    intakes,                \* number of messages the worker threads have taken
    tracked,                \* per worker thread: how track_user ended for its message
    probe,                  \* a rule table, a message, and what the command loop resolved
    act,                    \* a handler, how its body ends, and what call_action did with it
    send,                   \* reply_to_line of mtc_assistant_bot: its arguments and its loop
    pool,                   \* get_line_api: the singleton, its lock, the threads inside
    reminder,               \* broadcast_homework_reminder: the homeworks stored, what it sent
    collection              \* the documents of 'users' with their is_active flags, and the calls made on them

vars == <<impl, RATE_LIMIT_MAX, RATE_LIMIT_WINDOW, now, ticks,
          _user_message_history, _banned_users, _rate_limit_lock,
          pc, user_id, now_ts, calls, arrivals, verdicts, last, hm, handled,
          db, line_api, users, bc, broadcast_history, broadcasts,
          where, access, intakes, tracked, probe, act, send, pool,
          reminder, collection>>

(* the variables of the limiter's worker threads and of the dispatcher *)
tvars == <<_rate_limit_lock, pc, user_id, now_ts, calls, arrivals, verdicts, last>>
dvars == <<hm, handled>>

(* the variables of the broadcast, of the worker threads' way through     *)
(* handle_message, and of the command loop taken alone                    *)
bvars == <<db, line_api, users, bc, broadcast_history, broadcasts>>
ivars == <<where, access, intakes, tracked>>
(* the functions taken alone *)
uvars == <<act, send, pool, reminder, collection>>
(* all of them but one *)
ButAct == <<send, pool, reminder, collection>>
ButSend == <<act, pool, reminder, collection>>
ButPool == <<act, send, reminder, collection>>
ButReminder == <<act, send, pool, collection>>
ButCollection == <<act, send, pool, reminder>>
rvars == <<probe, uvars>>

---------------------------------------------------------------------------
(* Bounds of the model *)

MaxLimit == 1
MaxWindow == 2
MaxTicks == 2
MaxCalls == 5
MaxHandled == 3

(* The length of a ban, seconds *)
BAN_SECONDS == 300

Users == {"U1", "U2"}
Threads == {"w1", "w2"}
Impls == {"handlers", "handlers_optimized"}
NoThread == "none"
NoUser == "nobody"
NoBan == 0 - 1

(* The clock is observed after one more second, or one second before a    *)
(* ban of BAN_SECONDS started at the previous observation runs out.        *)
ClockSteps == {1, BAN_SECONDS - 1}

---------------------------------------------------------------------------
(* Python dict helpers *)

DictGet(d, k, default) == IF k \in DOMAIN d THEN d[k] ELSE default

DictSet(d, k, v) == [x \in (DOMAIN d) \cup {k} |-> IF x = k THEN v ELSE d[x]]

DictDel(d, k) == [x \in (DOMAIN d) \ {k} |-> d[x]]

---------------------------------------------------------------------------
(* is_rate_limited, the critical section *)

(* A limiter that never prunes its window *)
RecentNeverPruned(history, ts) == history

(* A window that keeps the timestamp that is exactly a window old *)
RecentInclusive(history, ts) == SelectSeq(history, LAMBDA t : ts - t <= RATE_LIMIT_WINDOW)

(* recent = [t for t in history if now_ts - t < RATE_LIMIT_WINDOW] *)
Recent(history, ts) == SelectSeq(history, LAMBDA t : ts - t < RATE_LIMIT_WINDOW)

(* A ban that still holds at the instant it runs out *)
BanIsActiveInclusive(ban_until, ts) == ts <= ban_until

(* if now_ts < ban_until *)
BanIsActive(ban_until, ts) == ts < ban_until

(* if len(recent) > RATE_LIMIT_MAX * 3 *)
SevereAbuse(recent) == Len(recent) > RATE_LIMIT_MAX * 3

(* A limiter without the cooldown tier *)
NoCooldown(recent) == FALSE

(* if len(recent) > RATE_LIMIT_MAX * 2 *)
ModerateAbuse(recent) == Len(recent) > RATE_LIMIT_MAX * 2

(* The normal check taken at twice the limit. *)
OverLimitAtDouble(recent) == Len(recent) > RATE_LIMIT_MAX * 2

(* A limit that is already over when it is reached *)
OverLimitAtLimit(recent) == Len(recent) >= RATE_LIMIT_MAX

(* if len(recent) > RATE_LIMIT_MAX, after the append *)
OverLimit(recent) == Len(recent) > RATE_LIMIT_MAX

(* A ban check that clears the whole dictionary *)
ClearAllBans(banned, u) == <<>>

(* The bans after the ban check of a call that is not rejected by it: an  *)
(* expired entry is deleted.                                              *)
AfterBanCheck(banned, u) == IF u \in DOMAIN banned THEN DictDel(banned, u) ELSE banned

(* The part of the enhanced limiter that follows the ban check.           *)
WindowCheck(u, ts, history, banned) ==
    LET recent == Recent(DictGet(history, u, <<>>), ts) IN
    IF SevereAbuse(recent)
    THEN [ret |-> TRUE, tier |-> "ban", history |-> history,
          banned |-> DictSet(banned, u, ts + BAN_SECONDS)]
    ELSE IF ModerateAbuse(recent)
    THEN [ret |-> TRUE, tier |-> "cooldown", history |-> history, banned |-> banned]
    ELSE LET appended == Append(recent, ts) IN
         [ret |-> OverLimit(appended),
          tier |-> IF OverLimit(appended) THEN "soft" ELSE "allowed",
          history |-> DictSet(history, u, appended),
          banned |-> banned]

(* handlers_optimized.is_rate_limited, lines 88-125 *)
EnhancedLimiter(u, ts, history, banned) ==
    IF u \in DOMAIN banned /\ BanIsActive(banned[u], ts)
    THEN [ret |-> TRUE, tier |-> "banned", history |-> history, banned |-> banned]
    ELSE WindowCheck(u, ts, history, AfterBanCheck(banned, u))

(* handlers.is_rate_limited, lines 49-57: no bans *)
BasicLimiter(u, ts, history, banned) ==
    LET appended == Append(Recent(DictGet(history, u, <<>>), ts), ts) IN
    [ret |-> OverLimit(appended),
     tier |-> IF OverLimit(appended) THEN "soft" ELSE "allowed",
     history |-> DictSet(history, u, appended),
     banned |-> banned]

Limiter(u, ts, history, banned) ==
    IF impl = "handlers_optimized"
    THEN EnhancedLimiter(u, ts, history, banned)
    ELSE BasicLimiter(u, ts, history, banned)

---------------------------------------------------------------------------
(* What is recorded about a served call *)

(* How many of the sender's served calls, this one included, lie in the   *)
(* window that ends at this call's timestamp.                             *)
CountInWindow(served, ts) ==
    1 + Cardinality({i \in DOMAIN served : ts - served[i] < RATE_LIMIT_WINDOW})

NoCall == [user |-> NoUser, ts |-> 0, ret |-> FALSE, tier |-> "none", n |-> 0,
           ban_before |-> NoBan, stored_before |-> <<>>]

(* a reply message: what it says, which function built it (for a          *)
(* handler's message: the handler), for a ban notice the remaining        *)
(* seconds it shows                                                       *)
Reply(kind, by) == [kind |-> kind, by |-> by, remaining |-> 0]
None == Reply("None", "")

(* the senders and other accounts the directory can hold *)
Recipients == {"U1", "U2", "U3", "U4", "U5"}

(* no broadcast_message invocation yet *)
NoBroadcast ==
    [phase |-> "none", user_ids |-> <<>>, next |-> 1, sent_count |-> 0, failed_count |-> 0,
     admin_id |-> NoUser, attempts |-> [r \in Recipients |-> 0], outcomes |-> <<>>,
     reads |-> 0, read_ok |-> TRUE, late |-> {}, wrote |-> FALSE, reply |-> <<>>,
     result |-> [success |-> FALSE, sent_count |-> 0, failed_count |-> 0, message |-> <<>>]]

(* no access to the limiter's dictionaries yet *)
NoAccess == [by |-> NoThread, op |-> "none", holder |-> NoThread]

(* the command loop not yet applied *)
NoProbe == [commands |-> <<>>, message |-> <<>>, applied |-> FALSE, rule |-> 0,
            keyword |-> <<>>, invoked |-> <<>>]

(* call_action not yet applied *)
NoAct == [module |-> "", action |-> "", bodies |-> <<>>, applied |-> FALSE,
          invocations |-> <<>>, raised |-> FALSE, reply |-> ""]

(* reply_to_line not called *)
NoSend == [max_retries |-> 0, given |-> "", phase |-> "none", attempt |-> 0,
           outcomes |-> <<>>, slept |-> <<>>, ret |-> FALSE]

(* get_line_api never called: _line_api_client = None (0), the lock free *)
NoPool == [configuration |-> TRUE, _line_api_client |-> 0, _api_client_lock |-> NoThread,
           at |-> [w \in Threads |-> "idle"], calls |-> 0, built |-> 0, failed |-> 0,
           returned |-> {}]

(* broadcast_homework_reminder not called, no homework stored *)
NoReminder == [homeworks |-> <<>>, phase |-> "none", calls |-> <<>>, logged |-> ""]

(* none of the functions taken alone has been applied *)
(* no document in 'users', no call of track_user or get_all_users made *)
NoCollection ==
    [docs |-> <<>>, tracks |-> 0, user |-> NoUser, before |-> "absent", ret |-> FALSE,
     successes |-> {}, reads |-> 0, read_ok |-> TRUE, due |-> {}, user_ids |-> <<>>]

Untested ==
    /\ act = NoAct /\ send = NoSend /\ pool = NoPool /\ reminder = NoReminder
    /\ collection = NoCollection

(* no inbound message handled yet *)
NoMessage == [user |-> NoUser, text |-> <<>>, calls |-> <<>>, reply |-> None,
              prompt |-> <<>>, raised |-> FALSE, tier |-> "none",
              handler |-> "", ai |-> ""]

---------------------------------------------------------------------------
(* The state machine of the limiter *)

(* the limiter and the dispatcher when the process has started, whichever *)
(* module it runs                                                         *)
InitLimits(limits) ==
    /\ RATE_LIMIT_MAX \in limits
    /\ RATE_LIMIT_WINDOW = MaxWindow
    /\ now = 0
    /\ ticks = 0
    /\ _user_message_history = <<>>
    /\ _banned_users = <<>>
    /\ _rate_limit_lock = NoThread
    /\ pc = [w \in Threads |-> "idle"]
    /\ user_id = [w \in Threads |-> NoUser]
    /\ now_ts = [w \in Threads |-> 0]
    /\ calls = 0
    /\ arrivals = [u \in Users |-> <<>>]
    /\ verdicts = [u \in Users |-> <<>>]
    /\ last = NoCall
    /\ hm = NoMessage
    /\ handled = 0

InitHandlers == InitLimits(0..MaxLimit)

(* an empty directory, no broadcast yet *)
InitDirectory ==
    /\ users = {}
    /\ bc = NoBroadcast
    /\ broadcast_history = <<>>
    /\ broadcasts = 0

(* no worker thread has taken a message yet *)
InitWorkers ==
    /\ where = [w \in Threads |-> "idle"]
    /\ access = NoAccess
    /\ intakes = 0
    /\ tracked = [w \in Threads |-> "none"]

(* the state when the process has started, with its services configured *)
InitState ==
    /\ InitHandlers
    /\ db = TRUE
    /\ line_api = TRUE
    /\ InitDirectory
    /\ InitWorkers
    /\ probe = NoProbe
    /\ Untested

InitLimiter ==
    /\ impl \in Impls
    /\ InitState

(* time passes *)
Tick ==
    /\ ticks < MaxTicks
    /\ \E d \in ClockSteps : now' = now + d
    /\ ticks' = ticks + 1
    /\ UNCHANGED <<impl, RATE_LIMIT_MAX, RATE_LIMIT_WINDOW, _user_message_history,
                   _banned_users, _rate_limit_lock, pc, user_id, now_ts, calls,
                   arrivals, verdicts, last, hm, handled>>
    /\ UNCHANGED <<bvars, ivars, rvars>>

(* is_rate_limited(user_id) is entered: now_ts = time.time().  Idle       *)
(* workers and unseen senders are interchangeable, so when both workers    *)
(* are idle the call goes to w1, and the first caller ever is U1.          *)
ReadClock(w, u) ==
    /\ pc[w] = "idle"
    /\ calls < MaxCalls
    /\ (w = "w2" => pc["w1"] # "idle")
    /\ (u = "U2" => calls > 0)
    /\ pc' = [pc EXCEPT ![w] = "stamped"]
    /\ user_id' = [user_id EXCEPT ![w] = u]
    /\ now_ts' = [now_ts EXCEPT ![w] = now]
    /\ calls' = calls + 1
    /\ UNCHANGED <<impl, RATE_LIMIT_MAX, RATE_LIMIT_WINDOW, now, ticks,
                   _user_message_history, _banned_users, _rate_limit_lock,
                   arrivals, verdicts, last, hm, handled>>
    /\ UNCHANGED <<bvars, ivars, rvars>>

(* with _rate_limit_lock: *)
Acquire(w) ==
    /\ pc[w] = "stamped"
    /\ _rate_limit_lock = NoThread
    /\ _rate_limit_lock' = w
    /\ pc' = [pc EXCEPT ![w] = "locked"]
    /\ UNCHANGED <<impl, RATE_LIMIT_MAX, RATE_LIMIT_WINDOW, now, ticks,
                   _user_message_history, _banned_users, user_id, now_ts, calls,
                   arrivals, verdicts, last, hm, handled>>
    /\ UNCHANGED <<bvars, ivars, rvars>>

(* the critical section, then the lock is released and the call returns *)
Serve(w) ==
    /\ pc[w] = "locked"
    /\ _rate_limit_lock = w
    /\ LET u == user_id[w]
           ts == now_ts[w]
           r == Limiter(u, ts, _user_message_history, _banned_users)
       IN /\ _user_message_history' = r.history
          /\ _banned_users' = r.banned
          /\ last' = [user |-> u, ts |-> ts, ret |-> r.ret, tier |-> r.tier,
                      n |-> CountInWindow(arrivals[u], ts),
                      ban_before |-> DictGet(_banned_users, u, NoBan),
                      stored_before |-> DictGet(_user_message_history, u, <<>>)]
          /\ arrivals' = [arrivals EXCEPT ![u] = Append(@, ts)]
          /\ verdicts' = [verdicts EXCEPT ![u] = Append(@, r.ret)]
    /\ _rate_limit_lock' = NoThread
    /\ pc' = [pc EXCEPT ![w] = "idle"]
    /\ user_id' = [user_id EXCEPT ![w] = NoUser]
    /\ now_ts' = [now_ts EXCEPT ![w] = 0]
    /\ UNCHANGED <<impl, RATE_LIMIT_MAX, RATE_LIMIT_WINDOW, now, ticks, calls,
                   hm, handled>>
    /\ UNCHANGED <<bvars, ivars, rvars>>

NextLimiter ==
    \/ Tick
    \/ \E w \in Threads, u \in Users : ReadClock(w, u)
    \/ \E w \in Threads : Acquire(w)
    \/ \E w \in Threads : Serve(w)

SpecLimiter == InitLimiter /\ [][NextLimiter]_vars

---------------------------------------------------------------------------
(* Properties of the limiter, checked under SpecLimiter.  They read the   *)
(* record of the call served last: its sender, its timestamp ts, what it  *)
(* returned, and n, the number of the sender's served calls that lie in   *)
(* the window ending at ts (the call itself included).                    *)

Served == last.user # NoUser

Enhanced == impl = "handlers_optimized"

(* The number of timestamps the call found stored for its sender that     *)
(* were still inside its window.                                          *)
StoredInWindow ==
    Cardinality({i \in DOMAIN last.stored_before :
                    last.ts - last.stored_before[i] < RATE_LIMIT_WINDOW})

OneWindow ==
    /\ last.n = Len(arrivals[last.user])
    /\ \A i, j \in DOMAIN arrivals[last.user] :
          arrivals[last.user][i] - arrivals[last.user][j] < RATE_LIMIT_WINDOW

C3_BeyondTripleLimitBanned ==
    (Served /\ Enhanced /\ OneWindow
        /\ RATE_LIMIT_MAX >= 1 /\ last.n > 3 * RATE_LIMIT_MAX)
        => (/\ last.ret = TRUE
            /\ last.user \in DOMAIN _banned_users
            /\ last.ban_before = NoBan => _banned_users[last.user] = last.ts + BAN_SECONDS)

(* C4: a call of a sender that has a ban entry: while ts < ban_until it   *)
(* returns True as banned whatever the stored window holds, and leaves    *)
(* the ban entry and the stored window as they were; from ts >= ban_until *)
(* on the entry is deleted and the call is classified by the stored       *)
(* window alone (and is not banned again unless that window says so).     *)
C4_BanHoldsUntilExpiry ==
    (Served /\ last.ban_before # NoBan) =>
        IF last.ts < last.ban_before
        THEN /\ last.ret = TRUE
             /\ last.tier = "banned"
             /\ DictGet(_banned_users, last.user, NoBan) = last.ban_before
             /\ DictGet(_user_message_history, last.user, <<>>) = last.stored_before
        ELSE /\ last.tier =
                   IF StoredInWindow > 3 * RATE_LIMIT_MAX THEN "ban"
                   ELSE IF StoredInWindow > 2 * RATE_LIMIT_MAX THEN "cooldown"
                   ELSE IF StoredInWindow + 1 > RATE_LIMIT_MAX THEN "soft"
                   ELSE "allowed"
             /\ last.ret = (last.tier # "allowed")
             /\ (last.tier # "ban" => last.user \notin DOMAIN _banned_users)

(* C4 witness: the first call at or after ban_until: the ban entry is     *)
(* gone and the call was judged by its (by then empty) window.            *)
C4_Witness ==
    /\ Served
    /\ last.ban_before # NoBan
    /\ last.ts >= last.ban_before
    /\ last.user \notin DOMAIN _banned_users
    /\ StoredInWindow = 0

(* A banned sender's call is rejected although nothing in the stored      *)
(* window is recent.                                                      *)
C4_RejectedWithEmptyWindow ==
    /\ Served
    /\ last.tier = "banned"
    /\ last.stored_before # <<>>
    /\ StoredInWindow = 0

---------------------------------------------------------------------------
(* Part 2.  The literals of the source, as sequences of code points *)

(* COMMANDS of handlers.py: the rules in order, each with its keywords (code points) and the name of its handler *)
COMMANDS_handlers ==
    << [keywords |-> <<<<3591, 3634, 3609>>, <<3585, 3634, 3619, 3610, 3657, 3634, 3609>>, <<3648, 3594, 3655, 3588, 3591, 3634, 3609>>, <<3651, 3610, 3591, 3634, 3609>>>>,
       action |-> "get_worksheet_message"],
     [keywords |-> <<<<3648, 3623, 3655, 3610, 3650, 3619, 3591, 3648, 3619, 3637, 3618, 3609>>, <<3648, 3623, 3655, 3610>>>>,
       action |-> "get_school_link_message"],
     [keywords |-> <<<<3605, 3634, 3619, 3634, 3591, 3648, 3619, 3637, 3618, 3609>>, <<3605, 3634, 3619, 3634, 3591, 3626, 3629, 3609>>>>,
       action |-> "get_timetable_image_message"],
     [keywords |-> <<<<3648, 3585, 3619, 3604>>, <<3604, 3641, 3648, 3585, 3619, 3604>>>>,
       action |-> "get_grade_link_message"],
     [keywords |-> <<<<3621, 3634, 3611, 3656, 3623, 3618>>, <<3621, 3634, 3585, 3636, 3592>>, <<3621, 3634>>>>,
       action |-> "get_absence_form_message"],
     [keywords |-> <<<<3594, 3637, 3623, 3632>>, <<3648, 3593, 3621, 3618, 3594, 3637, 3623, 3632>>>>,
       action |-> "get_bio_link_message"],
     [keywords |-> <<<<3615, 3636, 3626, 3636, 3585, 3626, 3660>>, <<3648, 3593, 3621, 3618, 3615, 3636, 3626, 3636, 3585, 3626, 3660>>>>,
       action |-> "get_physic_link_message"],
     [keywords |-> <<<<3588, 3634, 3610, 3605, 3656, 3629, 3652, 3611>>, <<3648, 3619, 3637, 3618, 3609, 3629, 3632, 3652, 3619>>, <<3648, 3619, 3637, 3618, 3609, 3652, 3619, 3605, 3656, 3629>>>>,
       action |-> "get_next_class_message"],
     [keywords |-> <<<<3629, 3637, 3585, 3585, 3637, 3656, 3609, 3634, 3607, 3637>>, <<3648, 3627, 3621, 3639, 3629, 3648, 3623, 3621, 3634>>, <<3648, 3594, 3655, 3588, 3648, 3623, 3621, 3634>>>>,
       action |-> "get_time_until_next_class_message"],
     [keywords |-> <<<<3626, 3629, 3610>>, <<3623, 3633, 3609, 3626, 3629, 3610>>>>,
       action |-> "get_exam_countdown_message"],
     [keywords |-> <<<<3648, 3611, 3636, 3604, 3648, 3614, 3621, 3591>>, <<3627, 3634, 3648, 3614, 3621, 3591>>, <<3586, 3629, 3648, 3614, 3621, 3591>>>>,
       action |-> "get_music_link_message"],
     [keywords |-> <<<<3588, 3635, 3626, 3633, 3656, 3591>>, <<104, 101, 108, 112>>, <<3594, 3656, 3623, 3618, 3648, 3627, 3621, 3639, 3629>>>>,
       action |-> "get_help_message"] >>

(* COMMANDS of handlers_optimized.py: the rules in order, each with its keywords (code points) and the name of its handler *)
COMMANDS_handlers_optimized ==
    << [keywords |-> <<<<8225, 8719, 225, 8225, 8719, 8804, 8225, 8719, 244>>, <<8225, 8719, 197, 8225, 8719, 8804, 8225, 8719, 163, 8225, 8719, 246, 8225, 960, 226, 8225, 8719, 8804, 8225, 8719, 244>>, <<8225, 960, 196, 8225, 8719, 228, 8225, 960, 225, 8225, 8719, 209, 8225, 8719, 225, 8225, 8719, 8804, 8225, 8719, 244>>, <<8225, 960, 201, 8225, 8719, 246, 8225, 8719, 225, 8225, 8719, 8804, 8225, 8719, 244>>>>,
       action |-> "get_worksheet_message"],
     [keywords |-> <<<<8225, 960, 196, 8225, 8719, 223, 8225, 960, 225, 8225, 8719, 246, 8225, 960, 199, 8225, 8719, 163, 8225, 8719, 225, 8225, 960, 196, 8225, 8719, 163, 8225, 8719, 181, 8225, 8719, 162, 8225, 8719, 244>>, <<8225, 960, 196, 8225, 8719, 223, 8225, 960, 225, 8225, 8719, 246>>>>,
       action |-> "get_school_link_message"],
     [keywords |-> <<<<8225, 8719, 239, 8225, 8719, 8804, 8225, 8719, 163, 8225, 8719, 8804, 8225, 8719, 225, 8225, 960, 196, 8225, 8719, 163, 8225, 8719, 181, 8225, 8719, 162, 8225, 8719, 244>>, <<8225, 8719, 239, 8225, 8719, 8804, 8225, 8719, 163, 8225, 8719, 8804, 8225, 8719, 225, 8225, 8719, 8482, 8225, 8719, 8800, 8225, 8719, 244>>>>,
       action |-> "get_timetable_image_message"],
     [keywords |-> <<<<8225, 960, 196, 8225, 8719, 197, 8225, 8719, 163, 8225, 8719, 238>>, <<8225, 8719, 238, 8225, 8719, 960, 8225, 960, 196, 8225, 8719, 197, 8225, 8719, 163, 8225, 8719, 238>>>>,
       action |-> "get_grade_link_message"],
     [keywords |-> <<<<8225, 8719, 8226, 8225, 8719, 8804, 8225, 8719, 245, 8225, 960, 224, 8225, 8719, 223, 8225, 8719, 162>>, <<8225, 8719, 8226, 8225, 8719, 8804, 8225, 8719, 197, 8225, 8719, 165, 8225, 8719, 224>>, <<8225, 8719, 8226, 8225, 8719, 8804>>>>,
       action |-> "get_absence_form_message"],
     [keywords |-> <<<<8225, 8719, 228, 8225, 8719, 181, 8225, 8719, 223, 8225, 8719, 8734>>, <<8225, 960, 196, 8225, 8719, 226, 8225, 8719, 8226, 8225, 8719, 162, 8225, 8719, 228, 8225, 8719, 181, 8225, 8719, 223, 8225, 8719, 8734>>>>,
       action |-> "get_bio_link_message"],
     [keywords |-> <<<<8225, 8719, 252, 8225, 8719, 165, 8225, 8719, 8482, 8225, 8719, 165, 8225, 8719, 197, 8225, 8719, 8482, 8225, 960, 229>>, <<8225, 960, 196, 8225, 8719, 226, 8225, 8719, 8226, 8225, 8719, 162, 8225, 8719, 252, 8225, 8719, 165, 8225, 8719, 8482, 8225, 8719, 165, 8225, 8719, 197, 8225, 8719, 8482, 8225, 960, 229>>>>,
       action |-> "get_physic_link_message"],
     [keywords |-> <<<<8225, 8719, 209, 8225, 8719, 8804, 8225, 8719, 246, 8225, 8719, 239, 8225, 960, 224, 8225, 8719, 8800, 8225, 960, 209, 8225, 8719, 245>>, <<8225, 960, 196, 8225, 8719, 163, 8225, 8719, 181, 8225, 8719, 162, 8225, 8719, 244, 8225, 8719, 8800, 8225, 8719, 8734, 8225, 960, 209, 8225, 8719, 163>>, <<8225, 960, 196, 8225, 8719, 163, 8225, 8719, 181, 8225, 8719, 162, 8225, 8719, 244, 8225, 960, 209, 8225, 8719, 163, 8225, 8719, 239, 8225, 960, 224, 8225, 8719, 8800>>>>,
       action |-> "get_next_class_message"],
     [keywords |-> <<<<8225, 8719, 8800, 8225, 8719, 181, 8225, 8719, 197, 8225, 8719, 197, 8225, 8719, 181, 8225, 960, 224, 8225, 8719, 244, 8225, 8719, 8804, 8225, 8719, 243, 8225, 8719, 181>>, <<8225, 960, 196, 8225, 8719, 180, 8225, 8719, 8226, 8225, 8719, 8721, 8225, 8719, 8800, 8225, 960, 196, 8225, 8719, 223, 8225, 8719, 8226, 8225, 8719, 8804>>, <<8225, 960, 196, 8225, 8719, 228, 8225, 960, 225, 8225, 8719, 209, 8225, 960, 196, 8225, 8719, 223, 8225, 8719, 8226, 8225, 8719, 8804>>>>,
       action |-> "get_time_until_next_class_message"],
     [keywords |-> <<<<8225, 8719, 8482, 8225, 8719, 8800, 8225, 8719, 246>>, <<8225, 8719, 223, 8225, 8719, 177, 8225, 8719, 244, 8225, 8719, 8482, 8225, 8719, 8800, 8225, 8719, 246>>>>,
       action |-> "get_exam_countdown_message"],
     [keywords |-> <<<<8225, 960, 196, 8225, 8719, 245, 8225, 8719, 165, 8225, 8719, 238, 8225, 960, 196, 8225, 8719, 251, 8225, 8719, 8226, 8225, 8719, 225>>, <<8225, 8719, 180, 8225, 8719, 8804, 8225, 960, 196, 8225, 8719, 251, 8225, 8719, 8226, 8225, 8719, 225>>, <<8225, 8719, 199, 8225, 8719, 8800, 8225, 960, 196, 8225, 8719, 251, 8225, 8719, 8226, 8225, 8719, 225>>>>,
       action |-> "get_music_link_message"],
     [keywords |-> <<<<8225, 8719, 209, 8225, 8719, 8805, 8225, 8719, 8482, 8225, 8719, 177, 8225, 960, 224, 8225, 8719, 225>>, <<104, 101, 108, 112>>, <<8225, 8719, 228, 8225, 960, 224, 8225, 8719, 223, 8225, 8719, 162, 8225, 960, 196, 8225, 8719, 180, 8225, 8719, 8226, 8225, 8719, 8721, 8225, 8719, 8800>>>>,
       action |-> "get_help_message"] >>

(* COMMANDS of mtc_assistant_bot.py: the rules in order, each with its keywords (code points) and the name of its handler *)
COMMANDS_mtc_assistant_bot ==
    << [keywords |-> <<<<224, 184, 8225, 224, 184, 178, 224, 184, 8482>>, <<224, 184, 224, 184, 178, 224, 184, 163, 224, 184, 353, 224, 185, 8240, 224, 184, 178, 224, 184, 8482>>, <<224, 185, 8364, 224, 184, 352, 224, 185, 8225, 224, 184, 8222, 224, 184, 8225, 224, 184, 178, 224, 184, 8482>>>>,
       action |-> "get_worksheet_message"],
     [keywords |-> <<<<224, 185, 8364, 224, 184, 167, 224, 185, 8225, 224, 184, 353, 224, 185, 8218, 224, 184, 163, 224, 184, 8225, 224, 185, 8364, 224, 184, 163, 224, 184, 181, 224, 184, 162, 224, 184, 8482>>, <<224, 185, 8364, 224, 184, 167, 224, 185, 8225, 224, 184, 353>>>>,
       action |-> "get_school_link_message"],
     [keywords |-> <<<<224, 184, 8226, 224, 184, 178, 224, 184, 163, 224, 184, 178, 224, 184, 8225, 224, 185, 8364, 224, 184, 163, 224, 184, 181, 224, 184, 162, 224, 184, 8482>>, <<224, 184, 8226, 224, 184, 178, 224, 184, 163, 224, 184, 178, 224, 184, 8225, 224, 184, 170, 224, 184, 173, 224, 184, 8482>>>>,
       action |-> "get_timetable_image_message"],
     [keywords |-> <<<<224, 185, 8364, 224, 184, 224, 184, 163, 224, 184, 8221>>, <<224, 184, 8221, 224, 184, 185, 224, 185, 8364, 224, 184, 224, 184, 163, 224, 184, 8221>>>>,
       action |-> "get_grade_link_message"],
     [keywords |-> <<<<224, 184, 8222, 224, 184, 178, 224, 184, 353, 224, 184, 8226, 224, 185, 710, 224, 184, 173, 224, 185, 8222, 224, 184, 8250>>, <<224, 185, 8364, 224, 184, 163, 224, 184, 181, 224, 184, 162, 224, 184, 8482, 224, 184, 173, 224, 184, 176, 224, 185, 8222, 224, 184, 163>>, <<224, 185, 8364, 224, 184, 163, 224, 184, 181, 224, 184, 162, 224, 184, 8482, 224, 185, 8222, 224, 184, 163, 224, 184, 8226, 224, 185, 710, 224, 184, 173>>>>,
       action |-> "get_next_class_message"],
     [keywords |-> <<<<224, 184, 173, 224, 184, 181, 224, 184, 224, 184, 224, 184, 181, 224, 185, 710, 224, 184, 8482, 224, 184, 178, 224, 184, 8212, 224, 184, 181>>, <<224, 185, 8364, 224, 184, 171, 224, 184, 165, 224, 184, 183, 224, 184, 173, 224, 185, 8364, 224, 184, 167, 224, 184, 165, 224, 184, 178>>, <<224, 185, 8364, 224, 184, 352, 224, 185, 8225, 224, 184, 8222, 224, 185, 8364, 224, 184, 167, 224, 184, 165, 224, 184, 178>>>>,
       action |-> "get_time_until_next_class_message"],
     [keywords |-> <<<<224, 184, 165, 224, 184, 178, 224, 184, 8250, 224, 185, 710, 224, 184, 167, 224, 184, 162>>, <<224, 184, 165, 224, 184, 178, 224, 184, 224, 184, 180, 224, 184, 710>>, <<224, 184, 165, 224, 184, 178>>>>,
       action |-> "get_absence_form_message"],
     [keywords |-> <<<<224, 184, 352, 224, 184, 181, 224, 184, 167, 224, 184, 176>>, <<224, 185, 8364, 224, 184, 8240, 224, 184, 165, 224, 184, 162, 224, 184, 352, 224, 184, 181, 224, 184, 167, 224, 184, 176>>>>,
       action |-> "get_bio_link_message"],
     [keywords |-> <<<<224, 184, 376, 224, 184, 180, 224, 184, 170, 224, 184, 180, 224, 184, 224, 184, 170, 224, 185, 338>>, <<224, 185, 8364, 224, 184, 8240, 224, 184, 165, 224, 184, 162, 224, 184, 376, 224, 184, 180, 224, 184, 170, 224, 184, 180, 224, 184, 224, 184, 170, 224, 185, 338>>>>,
       action |-> "get_physic_link_message"],
     [keywords |-> <<<<224, 184, 8222, 224, 184, 179, 224, 184, 170, 224, 184, 177, 224, 185, 710, 224, 184, 8225>>, <<104, 101, 108, 112>>, <<224, 184, 352, 224, 185, 710, 224, 184, 167, 224, 184, 162, 224, 185, 8364, 224, 184, 171, 224, 184, 165, 224, 184, 183, 224, 184, 173>>>>,
       action |-> "get_help_message"],
     [keywords |-> <<<<224, 184, 170, 224, 184, 173, 224, 184, 353>>>>,
       action |-> "get_exam_countdown_message"] >>

(* user_message.startswith(...) of the add-homework command, handlers.py *)
ADD_HOMEWORK_handlers ==
    <<3626, 3633, 3656, 3591, 3585, 3634, 3619, 3610, 3657, 3634, 3609>>

(* the messages that list the homework, handlers.py *)
LIST_HOMEWORK_handlers ==
    {<<3585, 3634, 3619, 3610, 3657, 3634, 3609>>, <<3604, 3641, 3585, 3634, 3619, 3610, 3657, 3634, 3609>>, <<104, 111, 109, 101, 119, 111, 114, 107>>}

(* the messages that clear the homework, handlers.py *)
CLEAR_HOMEWORK_handlers ==
    {<<3621, 3610, 3585, 3634, 3619, 3610, 3657, 3634, 3609, 3607, 3633, 3657, 3591, 3627, 3617, 3604>>, <<99, 108, 101, 97, 114, 32, 104, 119>>, <<3621, 3610, 3591, 3634, 3609>>}

(* user_message.startswith(...) of the add-homework command, handlers_optimized.py *)
ADD_HOMEWORK_handlers_optimized ==
    <<8225, 8719, 8482, 8225, 8719, 177, 8225, 960, 224, 8225, 8719, 225, 8225, 8719, 197, 8225, 8719, 8804, 8225, 8719, 163, 8225, 8719, 246, 8225, 960, 226, 8225, 8719, 8804, 8225, 8719, 244>>

(* the messages that list the homework, handlers_optimized.py *)
LIST_HOMEWORK_handlers_optimized ==
    {<<8225, 8719, 197, 8225, 8719, 8804, 8225, 8719, 163, 8225, 8719, 246, 8225, 960, 226, 8225, 8719, 8804, 8225, 8719, 244>>, <<8225, 8719, 238, 8225, 8719, 960, 8225, 8719, 197, 8225, 8719, 8804, 8225, 8719, 163, 8225, 8719, 246, 8225, 960, 226, 8225, 8719, 8804, 8225, 8719, 244>>, <<104, 111, 109, 101, 119, 111, 114, 107>>}

(* the messages that clear the homework, handlers_optimized.py *)
CLEAR_HOMEWORK_handlers_optimized ==
    {<<8225, 8719, 8226, 8225, 8719, 246, 8225, 8719, 197, 8225, 8719, 8804, 8225, 8719, 163, 8225, 8719, 246, 8225, 960, 226, 8225, 8719, 8804, 8225, 8719, 244, 8225, 8719, 243, 8225, 8719, 177, 8225, 960, 226, 8225, 8719, 225, 8225, 8719, 180, 8225, 8719, 176, 8225, 8719, 238>>, <<99, 108, 101, 97, 114, 32, 104, 119>>, <<8225, 8719, 8226, 8225, 8719, 246, 8225, 8719, 225, 8225, 8719, 8804, 8225, 8719, 244>>}

(* prefix of the admin broadcast command *)
BROADCAST_PREFIX ==
    <<8225, 8719, 245, 8225, 8719, 163, 8225, 8719, 8734, 8225, 8719, 197, 8225, 8719, 8804, 8225, 8719, 174, 32>>

(* prefix of the admin urgent broadcast command *)
URGENT_PREFIX ==
    <<8225, 8719, 245, 8225, 8719, 163, 8225, 8719, 8734, 8225, 8719, 197, 8225, 8719, 8804, 8225, 8719, 174, 8225, 8719, 238, 8225, 960, 224, 8225, 8719, 223, 8225, 8719, 244, 32>>

(* prefix of the admin homework reminder command *)
REMINDER_PREFIX ==
    <<8225, 8719, 197, 8225, 8719, 8804, 8225, 8719, 163, 8225, 8719, 246, 8225, 960, 226, 8225, 8719, 8804, 8225, 8719, 244>>

(* the admin messages that ask for the broadcast statistics *)
BROADCAST_STATS ==
    {<<8225, 8719, 224, 8225, 8719, 8805, 8225, 8719, 244, 8225, 8719, 223, 8225, 8719, 244, 8225, 8719, 250, 8225, 8719, 960, 8225, 960, 226, 8225, 960, 201, 8225, 8719, 228, 8225, 960, 226>>, <<117, 115, 101, 114, 32, 99, 111, 117, 110, 116>>, <<8225, 8719, 250, 8225, 8719, 960, 8225, 960, 226, 8225, 960, 201, 8225, 8719, 228, 8225, 960, 226>>}

(* the admin messages that ask for the number of users *)
USER_COUNT ==
    {}

(* the admin messages that ask for the admin help *)
ADMIN_HELP ==
    {}

(* the text of the rich menu button that asks how to add homework *)
HOMEWORK_HOWTO ==
    <<8225, 8719, 223, 8225, 8719, 165, 8225, 8719, 242, 8225, 8719, 181, 8225, 8719, 8482, 8225, 8719, 177, 8225, 960, 224, 8225, 8719, 225, 8225, 8719, 197, 8225, 8719, 8804, 8225, 8719, 163, 8225, 8719, 246, 8225, 960, 226, 8225, 8719, 8804, 8225, 8719, 244>>

(* due_keywords of handlers._handle_add_homework, in order *)
due_keywords ==
    <<<<3626, 3656, 3591, 3623, 3633, 3609>>, <<3626, 3656, 3591, 32>>, <<100, 117, 101>>, <<100, 101, 97, 100, 108, 105, 110, 101>>>>

(* identity_queries of features.get_gemini_response *)
identity_queries_features ==
    {<<3588, 3640, 3603, 3588, 3639, 3629, 3651, 3588, 3619>>, <<3648, 3611, 3655, 3609, 3651, 3588, 3619>>, <<119, 104, 111, 32, 97, 114, 101, 32, 121, 111, 117>>, <<3588, 3640, 3603, 3594, 3639, 3656, 3629, 3629, 3632, 3652, 3619>>, <<3594, 3639, 3656, 3629, 3629, 3632, 3652, 3619>>, <<3605, 3633, 3623, 3605, 3609>>}

(* identity_queries of mtc_assistant_bot.get_gemini_response *)
identity_queries_mtc_assistant_bot ==
    {<<224, 184, 8222, 224, 184, 184, 224, 184, 8220, 224, 184, 8222, 224, 184, 183, 224, 184, 173, 224, 185, 402, 224, 184, 8222, 224, 184, 163>>, <<224, 185, 8364, 224, 184, 8250, 224, 185, 8225, 224, 184, 8482, 224, 185, 402, 224, 184, 8222, 224, 184, 163>>, <<119, 104, 111, 32, 97, 114, 101, 32, 121, 111, 117>>, <<224, 184, 8222, 224, 184, 184, 224, 184, 8220, 224, 184, 352, 224, 184, 183, 224, 185, 710, 224, 184, 173, 224, 184, 173, 224, 184, 176, 224, 185, 8222, 224, 184, 163>>, <<224, 184, 352, 224, 184, 183, 224, 185, 710, 224, 184, 173, 224, 184, 173, 224, 184, 176, 224, 185, 8222, 224, 184, 163>>, <<224, 184, 8226, 224, 184, 177, 224, 184, 167, 224, 184, 8226, 224, 184, 8482>>}

(* the empty text *)
TEXT_EMPTY ==
    <<>>

(* whitespace only: space, tab, newline, ideographic space *)
TEXT_BLANK ==
    <<32, 9, 10, 12288>>

(* " Help ": the keyword help in capitals, padded with spaces *)
TEXT_HELP ==
    <<32, 72, 101, 108, 112, 32>>

(* "  Hello\n": matches no rule; capitals and surrounding whitespace *)
TEXT_HELLO ==
    <<32, 32, 72, 101, 108, 108, 111, 10>>

(* "Who are you": matches no rule, an identity query of the fallback *)
TEXT_WHO ==
    <<87, 104, 111, 32, 97, 114, 101, 32, 121, 111, 117>>

(* "homework" *)
TEXT_HOMEWORK ==
    <<104, 111, 109, 101, 119, 111, 114, 107>>

(* the Thai word for homework, as typed by a user (handlers.py line 188) *)
TEXT_HOMEWORK_TH ==
    <<3585, 3634, 3619, 3610, 3657, 3634, 3609>>

(* the Thai add-homework command as typed by a user, with subject, detail and due date *)
TEXT_ADD_HOMEWORK ==
    <<3626, 3633, 3656, 3591, 3585, 3634, 3619, 3610, 3657, 3634, 3609, 32, 124, 32, 97, 32, 124, 32, 98, 32, 124, 32, 99>>

(* the Thai add-homework command in its old form: subject, detail, "due", due date *)
TEXT_ADD_OLD ==
    <<3626, 3633, 3656, 3591, 3585, 3634, 3619, 3610, 3657, 3634, 3609, 32, 97, 32, 98, 32, 100, 117, 101, 32, 99>>

(* "clear hw" *)
TEXT_CLEAR ==
    <<99, 108, 101, 97, 114, 32, 104, 119>>

(* "admin" *)
TEXT_ADMIN ==
    <<97, 100, 109, 105, 110>>

(* "broadcast stats" *)
TEXT_STATS ==
    <<98, 114, 111, 97, 100, 99, 97, 115, 116, 32, 115, 116, 97, 116, 115>>

(* the broadcast prefix as the literal of handlers_optimized.py line 310 has it, then "x" *)
TEXT_BROADCAST ==
    <<8225, 8719, 245, 8225, 8719, 163, 8225, 8719, 8734, 8225, 8719, 197, 8225, 8719, 8804, 8225, 8719, 174, 32, 120>>

(* the how-to text as the literal of handlers_optimized.py line 382 has it *)
TEXT_HOWTO ==
    <<8225, 8719, 223, 8225, 8719, 165, 8225, 8719, 242, 8225, 8719, 181, 8225, 8719, 8482, 8225, 8719, 177, 8225, 960, 224, 8225, 8719, 225, 8225, 8719, 197, 8225, 8719, 8804, 8225, 8719, 163, 8225, 8719, 246, 8225, 960, 226, 8225, 8719, 8804, 8225, 8719, 244>>

(* The inbound texts the model draws from. *)
Texts ==
    {TEXT_EMPTY, TEXT_BLANK, TEXT_HELP, TEXT_HELLO, TEXT_WHO, TEXT_HOMEWORK, TEXT_HOMEWORK_TH, TEXT_ADD_HOMEWORK, TEXT_ADD_OLD, TEXT_CLEAR, TEXT_ADMIN, TEXT_STATS, TEXT_BROADCAST, TEXT_HOWTO}

(* the code points str.strip() removes (those with str.isspace()) *)
WHITESPACE ==
    {9, 10, 11, 12, 13, 28, 29, 30, 31, 32, 133, 160, 5760, 8192, 8193, 8194, 8195, 8196, 8197, 8198, 8199, 8200, 8201, 8202, 8232, 8233, 8239, 8287, 12288}

(* str.lower() on the characters of the texts and keywords that it changes *)
LOWER ==
    [c \in {72, 87, 196, 197, 199, 201, 209, 338, 352, 376} |->
        CASE c = 72 -> 104
          [] c = 87 -> 119
          [] c = 196 -> 228
          [] c = 197 -> 229
          [] c = 199 -> 231
          [] c = 201 -> 233
          [] c = 209 -> 241
          [] c = 338 -> 339
          [] c = 352 -> 353
          [] c = 376 -> 255]

(* the characters of the texts and keywords that [\\w\\u0E00-\\u0E7F] matches *)
WORD_CHARS ==
    {72, 87, 97, 98, 99, 100, 101, 103, 104, 105, 107, 108, 109, 110, 111, 112, 114, 115, 116, 117, 119, 120, 121, 170, 178, 179, 181, 185, 196, 197, 199, 201, 209, 223, 224, 225, 226, 228, 229, 231, 233, 238, 239, 241, 242, 243, 244, 245, 246, 250, 251, 252, 255, 338, 339, 352, 353, 376, 402, 710, 960, 3585, 3586, 3588, 3591, 3592, 3593, 3594, 3603, 3604, 3605, 3607, 3609, 3610, 3611, 3614, 3615, 3617, 3618, 3619, 3621, 3623, 3626, 3627, 3629, 3632, 3633, 3634, 3635, 3636, 3637, 3639, 3640, 3641, 3648, 3650, 3651, 3652, 3655, 3656, 3657, 3660}
---------------------------------------------------------------------------
(* Text operations, on sequences of code points *)

(* str.strip(): leading and trailing whitespace removed *)
Strip(s) ==
    LET keep == {i \in 1..Len(s) : s[i] \notin WHITESPACE} IN
    IF keep = {} THEN <<>>
    ELSE SubSeq(s, CHOOSE i \in keep : \A j \in keep : i <= j,
                   CHOOSE i \in keep : \A j \in keep : i >= j)

(* str.lower() *)
Lower(s) ==
    [i \in 1..Len(s) |-> IF s[i] \in 65..90 THEN s[i] + 32
                         ELSE IF s[i] \in DOMAIN LOWER THEN LOWER[s[i]]
                         ELSE s[i]]

(* sub in s *)
Contains(s, sub) ==
    \E i \in 0..(Len(s) - Len(sub)) : SubSeq(s, i + 1, i + Len(sub)) = sub

(* s.startswith(prefix) *)
StartsWith(s, prefix) ==
    Len(prefix) <= Len(s) /\ SubSeq(s, 1, Len(prefix)) = prefix

(* a matcher that takes the keyword only as a whole word: an occurrence   *)
(* with no word character next to it on either side                        *)
_keyword_matches_whole_word(message_lower, keyword_lower) ==
    \E i \in 0..(Len(message_lower) - Len(keyword_lower)) :
       /\ SubSeq(message_lower, i + 1, i + Len(keyword_lower)) = keyword_lower
       /\ ~(i >= 1 /\ message_lower[i] \in WORD_CHARS)
       /\ ~(i + Len(keyword_lower) < Len(message_lower)
              /\ message_lower[i + Len(keyword_lower) + 1] \in WORD_CHARS)

(* handlers._keyword_matches, handlers_optimized._keyword_matches:        *)
(* keyword_lower in message_lower                                         *)
_keyword_matches(message_lower, keyword_lower) == Contains(message_lower, keyword_lower)

(* mtc_assistant_bot._keyword_matches: both lowered, then a search for    *)
(* (?<! [\w\u0E00-\u0E7F])keyword(?![\w\u0E00-\u0E7F]): the keyword, not      *)
(* preceded by a space and a word character, not followed by a word       *)
(* character.                                                             *)
_keyword_matches_re(user_message, keyword) ==
    LET um == Lower(user_message)
        kw == Lower(keyword)
    IN \E i \in 0..(Len(um) - Len(kw)) :
          /\ SubSeq(um, i + 1, i + Len(kw)) = kw
          /\ ~(i >= 2 /\ um[i - 1] = 32 /\ um[i] \in WORD_CHARS)
          /\ ~(i + Len(kw) < Len(um) /\ um[i + Len(kw) + 1] \in WORD_CHARS)

(* the keywords as the rule lists them *)
OriginalOrder(keywords) == keywords

(* sorted(keywords, key=len, reverse=True): by descending length, equal   *)
(* lengths in their original order                                        *)
RECURSIVE SortedByLen(_)
SortedByLen(keywords) ==
    IF keywords = <<>> THEN <<>>
    ELSE LET longest == CHOOSE i \in DOMAIN keywords :
                           /\ \A j \in DOMAIN keywords : Len(keywords[j]) <= Len(keywords[i])
                           /\ \A j \in 1..(i - 1) : Len(keywords[j]) < Len(keywords[i])
         IN <<keywords[longest]>> \o
            SortedByLen(SubSeq(keywords, 1, longest - 1) \o
                        SubSeq(keywords, longest + 1, Len(keywords)))

(* the least of a set of positions, 0 if it is empty *)
Earliest(positions) ==
    IF positions = {} THEN 0 ELSE CHOOSE i \in positions : \A j \in positions : i <= j

(* the element at the least of a set of positions of a sequence, its last *)
(* element if the set is empty                                            *)
FirstOf(s, positions) ==
    IF positions = {} THEN s[Len(s)] ELSE s[Earliest(positions)]

(* the modules with a handle_message *)
DispatchImpls == {"handlers", "handlers_optimized", "mtc_assistant_bot"}

(* COMMANDS of a module *)
COMMANDS(module) ==
    IF module = "handlers" THEN COMMANDS_handlers
    ELSE IF module = "handlers_optimized" THEN COMMANDS_handlers_optimized
    ELSE COMMANDS_mtc_assistant_bot

(* the matcher of a module *)
KeywordMatches(module, message_lower, keyword_lower) ==
    IF module = "mtc_assistant_bot"
    THEN _keyword_matches_re(message_lower, keyword_lower)
    ELSE _keyword_matches(message_lower, keyword_lower)

(* The keyword of a rule that the inner loop of the command loop stops    *)
(* at: the first of the sorted keywords that matches; <<>> if none does.  *)
MatchedKeyword(module, rule, user_message_lower) ==
    LET FirstMatch(sorted) ==
            FirstOf(Append(sorted, <<>>),
                    {i \in DOMAIN sorted :
                        KeywordMatches(module, user_message_lower, Lower(sorted[i]))})
    IN FirstMatch(SortedByLen(rule.keywords))

(* The rule the command loop stops at, for a table of rules: the first    *)
(* rule in the table's order with a matching keyword; 0 if no rule has    *)
(* one.                                                                   *)
MatchedRuleIn(module, commands, user_message_lower) ==
    Earliest({r \in DOMAIN commands :
                MatchedKeyword(module, commands[r], user_message_lower) # <<>>})

(* The rule the command loop of a module stops at, in its COMMANDS *)
MatchedRule(module, user_message_lower) ==
    MatchedRuleIn(module, COMMANDS(module), user_message_lower)

(* strip() of the inbound texts *)
Stripped == [user_text \in Texts |-> Strip(user_text)]

(* the inbound texts after strip() *)
Messages == {Stripped[user_text] : user_text \in Texts}

(* what the command loop of each module resolves each message to *)
Resolved ==
    [module \in DispatchImpls |->
        [user_message \in Messages |-> MatchedRule(module, Lower(user_message))]]

(* s.find(sub) + 1: the position of the first occurrence of sub in s,     *)
(* 0 if there is none                                                     *)
Find(s, sub) ==
    LET at == {i \in 1..(Len(s) - Len(sub) + 1) : SubSeq(s, i, i + Len(sub) - 1) = sub}
    IN IF at = {} THEN 0 ELSE CHOOSE i \in at : \A j \in at : i <= j

(* s.replace(old, "", 1) *)
RemoveFirst(s, old) ==
    LET i == Find(s, old) IN
    IF i = 0 THEN s ELSE SubSeq(s, 1, i - 1) \o SubSeq(s, i + Len(old), Len(s))

(* s.replace(old, "") *)
RECURSIVE RemoveAll(_, _)
RemoveAll(s, old) ==
    LET i == Find(s, old) IN
    IF i = 0 THEN s
    ELSE SubSeq(s, 1, i - 1) \o RemoveAll(SubSeq(s, i + Len(old), Len(s)), old)

(* s.split(sep) for a separator of one character *)
RECURSIVE Split(_, _)
Split(s, sep) ==
    LET i == Find(s, <<sep>>) IN
    IF i = 0 THEN <<s>>
    ELSE <<SubSeq(s, 1, i - 1)>> \o Split(SubSeq(s, i + 1, Len(s)), sep)

(* s.split(maxsplit=1) of a stripped s: the first word, and what follows  *)
(* the whitespace after it                                                *)
SplitFirstWord(s) ==
    LET gaps == {i \in 1..Len(s) : s[i] \in WHITESPACE} IN
    IF s = <<>> THEN <<>>
    ELSE IF gaps = {} THEN <<s>>
    ELSE LET g == CHOOSE i \in gaps : \A j \in gaps : i <= j
             after == {i \in g..Len(s) : s[i] \notin WHITESPACE}
             a == CHOOSE i \in after : \A j \in after : i <= j
         IN <<SubSeq(s, 1, g - 1), SubSeq(s, a, Len(s))>>

---------------------------------------------------------------------------
(* The steps of handle_message.  A step yields the calls it made, in      *)
(* order, the reply message it built (None if it built none), the prompt  *)
(* it gave to the fallback, and whether it raised.                        *)

Step(calls_made, reply) ==
    [calls |-> calls_made, reply |-> reply, prompt |-> <<>>, raised |-> FALSE]

Raise(calls_made) ==
    [calls |-> calls_made, reply |-> None, prompt |-> <<>>, raised |-> TRUE]

Skip == Step(<<>>, None)

(* `if not reply_message`: None is falsy, a message object is truthy *)
Truthy(reply) == reply.kind # "None"

(* The next step taken whether or not a reply has been built. *)
AndThen(done, next) ==
    IF done.raised THEN done
    ELSE [calls |-> done.calls \o next.calls, reply |-> next.reply,
          prompt |-> next.prompt, raised |-> next.raised]

(* `if not reply_message: ...`: the next step runs only if no reply has   *)
(* been built so far (and nothing was raised)                             *)
OrElse(done, next) ==
    IF done.raised \/ Truthy(done.reply) THEN done
    ELSE [calls |-> done.calls \o next.calls, reply |-> next.reply,
          prompt |-> next.prompt, raised |-> next.raised]

(* how a handler of features.py can end: all of them return a message     *)
(* object on every path, or raise                                         *)
HandlerOutcomes == {"returns", "raises", "raises TypeError"}

(* how the call of the Gemini model can end; "disabled" is no model set   *)
AiOutcomes == {"text", "empty", "raises", "disabled"}

(* A call_action that lets the handler's exception through. *)
call_action_uncaught(action, outcome) ==
    IF outcome = "returns"
    THEN Step(<<"call_action", action>>, Reply("HANDLER", action))
    ELSE Raise(<<"call_action", action>>)

(* handlers.call_action, handlers_optimized.call_action: every handler    *)
(* of COMMANDS takes user_message (co_argcount > 0), so it is called once *)
(* with it; an exception becomes the ACTION_ERROR message                 *)
call_action(action, outcome) ==
    IF outcome = "returns"
    THEN Step(<<"call_action", action>>, Reply("HANDLER", action))
    ELSE Step(<<"call_action", action>>, Reply("ACTION_ERROR", "call_action"))

(* mtc_assistant_bot.call_action: action(user_message); on a TypeError    *)
(* action() is tried; whatever still fails is raised again                *)
call_action_mtc(action, outcome) ==
    IF outcome = "returns"
    THEN Step(<<"call_action", action>>, Reply("HANDLER", action))
    ELSE IF outcome = "raises TypeError"
    THEN Raise(<<"call_action", action, action>>)
    ELSE Raise(<<"call_action", action>>)

(* the try around call_action in handle_message: its except builds the   *)
(* ACTION_ERROR message                                                   *)
Caught(c) ==
    IF c.raised THEN Step(c.calls, Reply("ACTION_ERROR", "handle_message")) ELSE c

(* the command loop: call_action, in the try, for the rule the message    *)
(* resolves to                                                            *)
CommandLoop(module, user_message, outcome) ==
    LET Invoke(r) ==
            IF r = 0 THEN Skip
            ELSE IF module = "mtc_assistant_bot"
            THEN Caught(call_action_mtc(COMMANDS(module)[r].action, outcome))
            ELSE Caught(call_action(COMMANDS(module)[r].action, outcome))
    IN Invoke(Resolved[module][user_message])

(* A get_gemini_response that lets the model's exception through. *)
get_gemini_response_uncaught(prompt, ai) ==
    IF \E q \in identity_queries_features : Contains(Lower(prompt), q)
    THEN [raised |-> FALSE, text |-> "IDENTITY"]
    ELSE IF ai = "disabled" THEN [raised |-> FALSE, text |-> "AI_DISABLED"]
    ELSE IF ai = "raises" THEN [raised |-> TRUE, text |-> ""]
    ELSE IF ai = "empty" THEN [raised |-> FALSE, text |-> "AI_NO_RESPONSE"]
    ELSE [raised |-> FALSE, text |-> "AI_TEXT"]

(* features.get_gemini_response: the identity answer, AI_DISABLED without *)
(* a model, else the model's text; AI_NO_RESPONSE if that is empty,       *)
(* AI_ERROR if the call raises                                            *)
get_gemini_response(prompt, ai) ==
    IF \E q \in identity_queries_features : Contains(Lower(prompt), q)
    THEN [raised |-> FALSE, text |-> "IDENTITY"]
    ELSE IF ai = "disabled" THEN [raised |-> FALSE, text |-> "AI_DISABLED"]
    ELSE IF ai = "raises" THEN [raised |-> FALSE, text |-> "AI_ERROR"]
    ELSE IF ai = "empty" THEN [raised |-> FALSE, text |-> "AI_NO_RESPONSE"]
    ELSE [raised |-> FALSE, text |-> "AI_TEXT"]

(* mtc_assistant_bot.get_gemini_response: a model call that raises leaves *)
(* response None, which parses to the empty text                          *)
get_gemini_response_mtc(user_message, ai) ==
    IF \E q \in identity_queries_mtc_assistant_bot : Contains(Lower(user_message), q)
    THEN [raised |-> FALSE, text |-> "IDENTITY"]
    ELSE IF ai = "disabled" THEN [raised |-> FALSE, text |-> "AI_DISABLED"]
    ELSE IF ai \in {"raises", "empty"} THEN [raised |-> FALSE, text |-> "AI_NO_RESPONSE"]
    ELSE [raised |-> FALSE, text |-> "AI_TEXT"]

(* the fallback to Gemini: get_gemini_response(user_message), its text    *)
(* made the reply; only handlers_optimized has a try around it, whose     *)
(* except builds the AI_ERROR message                                     *)
Fallback(module, user_message, ai) ==
    LET g == IF module = "mtc_assistant_bot"
             THEN get_gemini_response_mtc(user_message, ai)
             ELSE get_gemini_response(user_message, ai)
    IN [calls |-> <<"get_gemini_response">>,
        reply |-> IF ~g.raised THEN Reply(g.text, "get_gemini_response")
                  ELSE IF module = "handlers_optimized" THEN Reply("AI_ERROR", "handle_message")
                  ELSE None,
        prompt |-> user_message,
        raised |-> g.raised /\ module # "handlers_optimized"]

(* handlers_optimized.get_rate_limit_status *)
get_rate_limit_status(u, ts, history, banned) ==
    IF u \in DOMAIN banned
    THEN [status |-> "banned", ban_until |-> banned[u],
          remaining_seconds |-> banned[u] - ts]
    ELSE LET recent == Recent(DictGet(history, u, <<>>), ts) IN
         [status |-> IF OverLimit(recent) THEN "rate_limited" ELSE "ok",
          messages_count |-> Len(recent),
          limit |-> RATE_LIMIT_MAX,
          window_seconds |-> RATE_LIMIT_WINDOW]

(* the notice for a rate limited sender *)
RateLimitNotice(u, ts, history, banned) ==
    IF impl # "handlers_optimized" THEN Step(<<>>, Reply("RATE_LIMITED", "handle_message"))
    ELSE LET rate_status == get_rate_limit_status(u, ts, history, banned) IN
         Step(<<"get_rate_limit_status">>,
              IF rate_status.status = "banned"
              THEN [Reply("BAN_NOTICE", "handle_message")
                       EXCEPT !.remaining = rate_status.remaining_seconds]
              ELSE Reply("RATE_LIMITED", "handle_message"))

(* handlers._handle_add_homework: with a "|" the text is split at it and  *)
(* three parts are enough to add the homework; without one the prefix is  *)
(* removed, the first word is the subject, and the homework is added if   *)
(* the detail (what precedes the first due keyword found) is not empty    *)
_handle_add_homework(user_message) ==
    LET usage == Step(<<"_handle_add_homework">>,
                      Reply("ADD_HOMEWORK_USAGE", "_handle_add_homework"))
        added == Step(<<"_handle_add_homework", "add_homework_to_db">>,
                      Reply("ADD_HOMEWORK_RESULT", "add_homework_to_db"))
        parts == SplitFirstWord(Strip(RemoveAll(user_message, ADD_HOMEWORK_handlers)))
        remaining == IF Len(parts) > 1 THEN parts[2] ELSE <<>>
        found == {k \in DOMAIN due_keywords : Contains(remaining, due_keywords[k])}
        keyword == due_keywords[CHOOSE k \in found : \A j \in found : k <= j]
        detail == IF found = {} THEN remaining
                  ELSE Strip(SubSeq(remaining, 1, Find(remaining, keyword) - 1))
    IN IF Contains(user_message, <<124>>)
       THEN IF Len(Split(user_message, 124)) >= 3 THEN added ELSE usage
       ELSE IF Len(parts) >= 1 /\ detail # <<>> THEN added ELSE usage

(* handlers_optimized._handle_add_homework: only the "|" form, and        *)
(* subject and detail must not be empty                                   *)
_handle_add_homework_optimized(user_message) ==
    LET split == Split(user_message, 124)
        parts == [i \in DOMAIN split |-> Strip(split[i])]
    IN IF Contains(user_message, <<124>>) /\ Len(parts) >= 3
       THEN IF parts[2] = <<>> \/ parts[3] = <<>>
            THEN Step(<<"_handle_add_homework">>,
                      Reply("ADD_HOMEWORK_INVALID", "_handle_add_homework"))
            ELSE Step(<<"_handle_add_homework", "add_homework_to_db">>,
                      Reply("ADD_HOMEWORK_RESULT", "add_homework_to_db"))
       ELSE Step(<<"_handle_add_homework">>,
                 Reply("ADD_HOMEWORK_USAGE", "_handle_add_homework"))

(* the homework commands of handlers.handle_message *)
HomeworkCommands(user_message) ==
    IF StartsWith(user_message, ADD_HOMEWORK_handlers)
    THEN _handle_add_homework(user_message)
    ELSE IF user_message \in LIST_HOMEWORK_handlers
    THEN Step(<<"get_homeworks_from_db">>, Reply("HOMEWORK_LIST", "get_homeworks_from_db"))
    ELSE IF user_message \in CLEAR_HOMEWORK_handlers
    THEN Step(<<"clear_homework_db">>, Reply("HOMEWORK_CLEARED", "clear_homework_db"))
    ELSE Skip

(* the homework commands of handlers_optimized.handle_message *)
HomeworkCommandsOptimized(user_message) ==
    IF StartsWith(user_message, ADD_HOMEWORK_handlers_optimized)
    THEN _handle_add_homework_optimized(user_message)
    ELSE IF user_message \in LIST_HOMEWORK_handlers_optimized
    THEN Step(<<"get_homeworks_from_db">>, Reply("HOMEWORK_LIST", "get_homeworks_from_db"))
    ELSE IF user_message \in CLEAR_HOMEWORK_handlers_optimized
    THEN Step(<<"clear_homework_db">>, Reply("HOMEWORK_CLEARED", "clear_homework_db"))
    ELSE Skip

(* the senders configured as administrators *)
ADMIN_USER_IDS == {"U1"}

(* one of the three broadcast commands: the text after the prefix is      *)
(* broadcast and the result saved, or, if it is empty, the usage is shown *)
BroadcastCommand(user_message, prefix) ==
    IF Strip(RemoveFirst(user_message, prefix)) # <<>>
    THEN Step(<<"broadcast_message", "save_broadcast_history">>,
              Reply("BROADCAST_RESULT", "broadcast_message"))
    ELSE Step(<<>>, Reply("BROADCAST_USAGE", "handle_message"))

(* if user_id in ADMIN_USER_IDS: *)
Everyone(u) == TRUE
IsAdmin(u) == u \in ADMIN_USER_IDS

(* the admin commands of handlers_optimized.handle_message *)
AdminCommands(u, user_message) ==
    IF ~IsAdmin(u) THEN Skip
    ELSE IF StartsWith(user_message, BROADCAST_PREFIX)
    THEN BroadcastCommand(user_message, BROADCAST_PREFIX)
    ELSE IF StartsWith(user_message, URGENT_PREFIX)
    THEN BroadcastCommand(user_message, URGENT_PREFIX)
    ELSE IF StartsWith(user_message, REMINDER_PREFIX)
    THEN BroadcastCommand(user_message, REMINDER_PREFIX)
    ELSE IF user_message \in BROADCAST_STATS
    THEN Step(<<"get_broadcast_stats">>, Reply("BROADCAST_STATS", "get_broadcast_stats"))
    ELSE IF user_message \in USER_COUNT
    THEN Step(<<"get_user_count">>, Reply("USER_COUNT", "handle_message"))
    ELSE IF user_message \in ADMIN_HELP
    THEN Step(<<>>, Reply("ADMIN_HELP", "handle_message"))
    ELSE Skip

(* the reply to the rich menu button, sent at once *)
HomeworkHowto(user_message) ==
    IF Contains(user_message, HOMEWORK_HOWTO)
    THEN Step(<<>>, Reply("HOMEWORK_HOWTO", "handle_message"))
    ELSE Skip

---------------------------------------------------------------------------
(* handle_message *)

(* whether a function is among the calls made *)
Called(calls_made, op) == \E i \in DOMAIN calls_made : calls_made[i] = op

(* a step with calls made before it *)
After(calls_made, step) == [step EXCEPT !.calls = calls_made \o @]

(* Two sends of the reply that was built. *)
SendReplyTwice(step) ==
    IF ~step.raised /\ Truthy(step.reply)
    THEN [step EXCEPT !.calls = @ \o <<"reply_to_line", "reply_to_line">>]
    ELSE step

(* the reply that was built is sent: reply_to_line(reply_token, [reply])  *)
SendReply(step) ==
    IF ~step.raised /\ Truthy(step.reply)
    THEN [step EXCEPT !.calls = Append(@, "reply_to_line")]
    ELSE step

(* what a run of handle_message did, and the limiter state and the clock  *)
(* it leaves                                                              *)
Handled(step, tier, history, banned, ts) ==
    [calls |-> step.calls, reply |-> step.reply, prompt |-> step.prompt,
     raised |-> step.raised, tier |-> tier, history |-> history,
     banned |-> banned, now |-> ts]

(* The empty check that lets every text through. *)
NeverEmpty(user_message) == FALSE

(* `if not user_message` *)
IsEmpty(user_message) == user_message = <<>>

(* the reply to an empty text *)
InvalidMessage(history, banned, ts) ==
    Handled(SendReply(Step(<<>>, Reply("INVALID_MESSAGE", "handle_message"))),
            "none", history, banned, ts)

(* A rate limit whose result handle_message does not act on. *)
NotLimited(rl) == FALSE

(* `if is_rate_limited(user_id)` *)
IsLimited(rl) == rl.ret

(* what follows the rate limit in handlers.handle_message: the homework   *)
(* commands, then the command loop, then the fallback                     *)
Route_handlers(user_message, handler, ai) ==
    OrElse(OrElse(HomeworkCommands(user_message),
                  CommandLoop("handlers", user_message, handler)),
           Fallback("handlers", user_message, ai))

(* what follows the rate limit in handlers_optimized.handle_message: the  *)
(* admin commands, the how-to reply, the homework commands, the command   *)
(* loop, the fallback                                                     *)
Route_handlers_optimized(u, user_message, handler, ai) ==
    OrElse(OrElse(OrElse(OrElse(AdminCommands(u, user_message),
                                HomeworkHowto(user_message)),
                         HomeworkCommandsOptimized(user_message)),
                  CommandLoop("handlers_optimized", user_message, handler)),
           Fallback("handlers_optimized", user_message, ai))

(* what follows the rate limit in mtc_assistant_bot.handle_message: the   *)
(* command loop, then the fallback                                        *)
Route_mtc_assistant_bot(user_message, handler, ai) ==
    OrElse(CommandLoop("mtc_assistant_bot", user_message, handler),
           Fallback("mtc_assistant_bot", user_message, ai))

(* The routes of every module, sender and message, for every way the     *)
(* handler and the model can end.                                         *)
Routes ==
    [module \in DispatchImpls |-> [u \in Users |-> [user_message \in Messages |->
        [handler \in HandlerOutcomes |-> [ai \in AiOutcomes |->
            IF module = "handlers" THEN Route_handlers(user_message, handler, ai)
            ELSE IF module = "handlers_optimized"
            THEN Route_handlers_optimized(u, user_message, handler, ai)
            ELSE Route_mtc_assistant_bot(user_message, handler, ai)]]]]]

(* handlers.handle_message *)
handle_message_handlers(u, user_text, in, ts, history, banned) ==
    LET Reply_(user_message, rl) ==
            IF IsEmpty(user_message) THEN InvalidMessage(history, banned, ts)
            ELSE IF IsLimited(rl)
            THEN Handled(SendReply(After(<<"is_rate_limited">>,
                                         RateLimitNotice(u, ts, rl.history, rl.banned))),
                         rl.tier, rl.history, rl.banned, ts)
            ELSE Handled(SendReply(After(<<"is_rate_limited">>,
                                         Routes["handlers"][u][user_message][in.handler][in.ai])),
                         rl.tier, rl.history, rl.banned, ts)
    IN Reply_(Stripped[user_text], Limiter(u, ts, history, banned))

(* handlers_optimized.handle_message: the sender is tracked before the    *)
(* rate limit; get_rate_limit_status reads the clock again, in.lag        *)
(* seconds after is_rate_limited did                                      *)
handle_message_handlers_optimized(u, user_text, in, ts, history, banned) ==
    LET Reply_(user_message, rl) ==
            IF IsEmpty(user_message) THEN InvalidMessage(history, banned, ts)
            ELSE IF IsLimited(rl)
            THEN Handled(SendReply(After(<<"track_user", "is_rate_limited">>,
                                         RateLimitNotice(u, ts + in.lag, rl.history, rl.banned))),
                         rl.tier, rl.history, rl.banned, ts + in.lag)
            ELSE Handled(SendReply(After(<<"track_user", "is_rate_limited">>,
                                         Routes["handlers_optimized"][u][user_message][in.handler][in.ai])),
                         rl.tier, rl.history, rl.banned, ts)
    IN Reply_(Stripped[user_text], Limiter(u, ts, history, banned))

(* mtc_assistant_bot.handle_message *)
handle_message_mtc_assistant_bot(u, user_text, in, ts, history, banned) ==
    LET Reply_(user_message, rl) ==
            IF IsEmpty(user_message) THEN InvalidMessage(history, banned, ts)
            ELSE IF IsLimited(rl)
            THEN Handled(SendReply(After(<<"is_rate_limited">>,
                                         RateLimitNotice(u, ts, rl.history, rl.banned))),
                         rl.tier, rl.history, rl.banned, ts)
            ELSE Handled(SendReply(After(<<"is_rate_limited">>,
                                         Routes["mtc_assistant_bot"][u][user_message][in.handler][in.ai])),
                         rl.tier, rl.history, rl.banned, ts)
    IN Reply_(Stripped[user_text], Limiter(u, ts, history, banned))

(* handle_message of the module that runs *)
handle_message(u, user_text, in, ts, history, banned) ==
    IF impl = "handlers"
    THEN handle_message_handlers(u, user_text, in, ts, history, banned)
    ELSE IF impl = "handlers_optimized"
    THEN handle_message_handlers_optimized(u, user_text, in, ts, history, banned)
    ELSE handle_message_mtc_assistant_bot(u, user_text, in, ts, history, banned)

---------------------------------------------------------------------------
(* The state machine of the dispatcher *)

(* seconds between the two clock reads of a rate limited message *)
Lags == {0, 1}

(* What the collaborators can do while a message of a sender is handled:  *)
(* how the handler ends, if the message can reach one; how the model      *)
(* ends, if the message can reach the fallback; the lag, if               *)
(* get_rate_limit_status is going to be called.                           *)
Inputs(u, user_text) ==
    LET Reached(route, op) ==
            \E h \in HandlerOutcomes, a \in AiOutcomes : Called(route[h][a].calls, op)
        InputsOf(route) ==
            [handler : IF Reached(route, "call_action") THEN HandlerOutcomes ELSE {"returns"},
             ai : IF Reached(route, "get_gemini_response") THEN AiOutcomes ELSE {"text"},
             lag : IF /\ impl = "handlers_optimized"
                      /\ Limiter(u, now, _user_message_history, _banned_users).ret
                   THEN Lags ELSE {0}]
    IN InputsOf(Routes[impl][u][Stripped[user_text]])

InitDispatch ==
    /\ impl \in DispatchImpls
    /\ InitState

(* one inbound text message is handled, from the webhook to the reply *)
HandleMessage(u, user_text) ==
    /\ handled < MaxHandled
    /\ \E in \in Inputs(u, user_text) :
          \E r \in {handle_message(u, user_text, in, now, _user_message_history, _banned_users)} :
             /\ _user_message_history' = r.history
             /\ _banned_users' = r.banned
             /\ now' = r.now
             /\ hm' = [user |-> u, text |-> user_text, calls |-> r.calls,
                       reply |-> r.reply, prompt |-> r.prompt, raised |-> r.raised,
                       tier |-> r.tier,
                       handler |-> IF Called(r.calls, "call_action") THEN in.handler ELSE "",
                       ai |-> IF Called(r.calls, "get_gemini_response") THEN in.ai ELSE ""]
    /\ handled' = handled + 1
    /\ UNCHANGED <<impl, RATE_LIMIT_MAX, RATE_LIMIT_WINDOW, ticks>>
    /\ UNCHANGED <<tvars, bvars, ivars, rvars>>

NextDispatch ==
    \/ Tick
    \/ \E u \in Users, user_text \in Texts : HandleMessage(u, user_text)

SpecDispatch == InitDispatch /\ [][NextDispatch]_vars

---------------------------------------------------------------------------
(* Properties of handle_message, on the message handled last *)

(* a message has been handled *)
Answered == handled > 0

(* the text of the message handled last, stripped *)
Message == Stripped[hm.text]

(* how often a function is among the calls made *)
Count(calls_made, op) == Cardinality({i \in DOMAIN calls_made : calls_made[i] = op})

(* the replies of the admin commands, and of the homework commands *)
AdminReplies ==
    {"BROADCAST_RESULT", "BROADCAST_USAGE", "BROADCAST_STATS", "USER_COUNT", "ADMIN_HELP"}
HomeworkReplies ==
    {"ADD_HOMEWORK_RESULT", "ADD_HOMEWORK_USAGE", "ADD_HOMEWORK_INVALID",
     "HOMEWORK_LIST", "HOMEWORK_CLEARED", "HOMEWORK_HOWTO"}

(* the path the message handled last took *)
Path ==
    IF hm.reply.kind = "INVALID_MESSAGE" THEN "empty text"
    ELSE IF hm.reply.kind \in {"RATE_LIMITED", "BAN_NOTICE"} THEN "rate limited"
    ELSE IF hm.reply.kind \in AdminReplies THEN "admin command"
    ELSE IF hm.reply.kind \in HomeworkReplies THEN "homework command"
    ELSE IF Called(hm.calls, "call_action") THEN "keyword rule"
    ELSE IF Called(hm.calls, "get_gemini_response") THEN "fallback"
    ELSE "none"

(* is_rate_limited returned True for the message handled last *)
RateLimited == hm.tier \in {"soft", "cooldown", "ban", "banned"}

(* the messages some keyword of some rule of COMMANDS matches, per module *)
Matching ==
    [module \in DispatchImpls |->
        {user_message \in Messages :
            \E r \in DOMAIN COMMANDS(module) :
                \E k \in DOMAIN COMMANDS(module)[r].keywords :
                    KeywordMatches(module, Lower(user_message),
                                   Lower(COMMANDS(module)[r].keywords[k]))}]

(* what handle_message does before and after the routing *)
Upstream == {"track_user", "is_rate_limited", "get_rate_limit_status", "reply_to_line"}

C6_RateLimitedSkipsRouting ==
    (Answered /\ RateLimited)
        => (/\ hm.reply.kind =
                  (IF impl = "handlers_optimized" /\ hm.tier \in {"ban", "banned"}
                   THEN "BAN_NOTICE" ELSE "RATE_LIMITED")
            /\ \A i \in DOMAIN hm.calls : hm.calls[i] \in Upstream
            /\ hm.handler = "" /\ hm.ai = "")

(* a rate limited "Help", which a rule matches in every module *)
C6_Witness ==
    /\ Answered /\ RateLimited /\ hm.text = TEXT_HELP
    /\ Message \in Matching[impl]
    /\ hm.reply.kind = "RATE_LIMITED"

(* C7: a text that is empty or all whitespace is answered with            *)
(* INVALID_MESSAGE and nothing else is called: not the rate limit, not    *)
(* the command loop, not get_gemini_response.                             *)
C7_EmptyTextInvalidMessage ==
    (Answered /\ \A i \in DOMAIN hm.text : hm.text[i] \in WHITESPACE)
        => (/\ hm.reply.kind = "INVALID_MESSAGE"
            /\ hm.calls = <<"reply_to_line">>
            /\ hm.handler = "" /\ hm.ai = "")

(* a text of whitespace only *)
C7_Witness ==
    /\ Answered /\ hm.text = TEXT_BLANK /\ Len(hm.text) > 0
    /\ hm.reply.kind = "INVALID_MESSAGE"

(* C8: when the handler of the matched rule raises, the reply is the      *)
(* ACTION_ERROR text, built by call_action in handlers and                *)
(* handlers_optimized (by the except of handle_message in                 *)
(* mtc_assistant_bot, whose call_action raises again), handle_message     *)
(* raises nothing, and the reply is sent exactly once.                    *)
C8_RaisingHandlerActionError ==
    (Answered /\ hm.handler \in {"raises", "raises TypeError"})
        => (/\ hm.reply.kind = "ACTION_ERROR"
            /\ impl # "mtc_assistant_bot" => hm.reply.by = "call_action"
            /\ ~hm.raised
            /\ Count(hm.calls, "reply_to_line") = 1)

(* a handler that raises, in handlers *)
C8_Witness ==
    /\ Answered /\ impl = "handlers" /\ hm.handler = "raises"
    /\ Called(hm.calls, "get_help_message")
    /\ hm.reply = Reply("ACTION_ERROR", "call_action")

(* whether the message handled last passed the rate limit and is neither  *)
(* a command nor matched by a rule                                        *)
NoRuleMatches ==
    /\ Message # <<>> /\ ~RateLimited
    /\ Message \notin Matching[impl]
    /\ impl = "handlers" => ~Truthy(HomeworkCommands(Message).reply)
    /\ impl = "handlers_optimized" =>
          /\ ~Truthy(AdminCommands(hm.user, Message).reply)
          /\ ~Truthy(HomeworkHowto(Message).reply)
          /\ ~Truthy(HomeworkCommandsOptimized(Message).reply)

C10_FallbackOnlyWithoutMatch ==
    (Answered /\ Message \in Matching[impl]) => ~Called(hm.calls, "get_gemini_response")

(* a matched rule whose handler raises: no fallback *)
C10_Witness ==
    /\ Answered /\ Message \in Matching[impl] /\ Path = "keyword rule"
    /\ hm.handler = "raises" /\ hm.ai = ""
    /\ ~Called(hm.calls, "get_gemini_response")

---------------------------------------------------------------------------
(* Part 3.  broadcast.py: the recipient directory and broadcast_message   *)

(* at most this many broadcasts are started in one behaviour *)
MaxBroadcasts == 2

(* the order in which the directory streams its documents *)
RecipientOrder == <<"U1", "U2", "U3", "U4", "U5">>

(* A get_all_users that answers from the directory though the read failed *)
get_all_users_despite(database, directory, read_ok) ==
    IF ~database THEN <<>> ELSE SelectSeq(RecipientOrder, LAMBDA r : r \in directory)

(* get_all_users: the ids of the active documents, [] without a database  *)
(* or when the stream raises                                              *)
get_all_users(database, directory, read_ok) ==
    IF ~database \/ ~read_ok
    THEN <<>>
    ELSE SelectSeq(RecipientOrder, LAMBDA r : r \in directory)

(* track_user: set(..., merge=True) on the sender's document; nothing     *)
(* without a database                                                     *)
track_user(database, directory, u) ==
    IF database THEN directory \cup {u} ELSE directory

(* the first id of the stream order the directory does not hold yet *)
NextRecipient ==
    LET missing == {i \in DOMAIN RecipientOrder : RecipientOrder[i] \notin users}
    IN RecipientOrder[CHOOSE i \in missing : \A j \in missing : i <= j]

(* the list the for loop of broadcast_message iterates over: the one bound *)
(* to user_ids before the loop, whatever the directory holds by now        *)
IteratedLive(b, live) == live
Iterated(b, live) == b.user_ids

(* except Exception: failed_count += 1 *)
FailureDropped(failed_count) == failed_count
CountFailure(failed_count) == failed_count + 1

(* the for loop is over when the list is exhausted, and only then *)
LoopOverAtFailure(b, user_ids) ==
    \/ b.next > Len(user_ids)
    \/ b.failed_count > 0
LoopOver(b, user_ids) == b.next > Len(user_ids)

(* one iteration of the loop: push_message to the next recipient *)
push_message(b, user_ids, ok) ==
    [b EXCEPT !.next = b.next + 1,
              !.attempts[user_ids[b.next]] = @ + 1,
              !.outcomes = Append(@, ok),
              !.sent_count = IF ok THEN @ + 1 ELSE @,
              !.failed_count = IF ok THEN @ ELSE CountFailure(@)]

(* the three dictionaries broadcast_message returns *)
NotConfigured ==
    [success |-> FALSE, sent_count |-> 0, failed_count |-> 0,
     message |-> <<"LINE API not configured">>]

NoUsersFound ==
    [success |-> FALSE, sent_count |-> 0, failed_count |-> 0,
     message |-> <<"No users found">>]

Result(sent_count, failed_count) ==
    [success |-> sent_count > 0, sent_count |-> sent_count, failed_count |-> failed_count,
     message |-> IF failed_count > 0
                 THEN <<"sent", sent_count, "failed", failed_count>>
                 ELSE <<"sent", sent_count>>]

(* the document save_broadcast_history adds *)
HistoryEntryNoCounts(admin_id, result) ==
    [admin_id |-> admin_id, sent_count |-> 0, failed_count |-> 0,
     success |-> result.success]
HistoryEntry(admin_id, result) ==
    [admin_id |-> admin_id, sent_count |-> result.sent_count,
     failed_count |-> result.failed_count, success |-> result.success]

(* a broadcast_message invocation at its first line *)
Invoked(admin_id) ==
    [phase |-> "sending", admin_id |-> admin_id, user_ids |-> <<>>, next |-> 1,
     sent_count |-> 0, failed_count |-> 0,
     attempts |-> [r \in Recipients |-> 0], outcomes |-> <<>>, reads |-> 0,
     read_ok |-> TRUE,
     late |-> {}, wrote |-> FALSE, reply |-> <<>>, result |-> NotConfigured]

(* the state before any request: the services the process found at start  *)
(* and whatever the directory held                                        *)
InitBroadcast ==
    /\ impl = "handlers_optimized"
    /\ InitHandlers
    /\ db \in BOOLEAN
    /\ line_api \in BOOLEAN
    /\ InitDirectory
    /\ InitWorkers
    /\ probe = NoProbe
    /\ Untested

(* what the broadcast leaves alone: the limiter, the dispatcher, the      *)
(* worker threads and the command loop                                    *)
svars == <<impl, RATE_LIMIT_MAX, RATE_LIMIT_WINDOW, now, ticks,
           _user_message_history, _banned_users>>

(* handle_message, line 284: a sender is recorded in the directory, at any *)
(* time, a broadcast in progress or not                                   *)
TrackUser ==
    /\ db
    /\ users # Recipients
    /\ users' = track_user(db, users, NextRecipient)
    /\ bc' = IF bc.phase = "sending"
             THEN [bc EXCEPT !.late = @ \cup {NextRecipient}]
             ELSE bc
    /\ UNCHANGED <<db, line_api, broadcast_history, broadcasts>>
    /\ UNCHANGED <<svars, tvars, dvars, ivars, rvars>>

(* broadcast_message up to the loop: the configuration check, the one     *)
(* call of get_all_users, the check for an empty list                     *)
BroadcastMessage(admin_id, read_ok) ==
    /\ bc.phase \in {"none", "replied"}
    /\ broadcasts < MaxBroadcasts
    /\ broadcasts' = broadcasts + 1
    /\ bc' = IF ~line_api
             THEN [Invoked(admin_id) EXCEPT !.phase = "returned", !.result = NotConfigured]
             ELSE LET user_ids == get_all_users(db, users, read_ok)
                  IN IF user_ids = <<>>
                     THEN [Invoked(admin_id) EXCEPT !.phase = "returned", !.reads = 1,
                                                    !.read_ok = read_ok,
                                                    !.result = NoUsersFound]
                     ELSE [Invoked(admin_id) EXCEPT !.user_ids = user_ids, !.reads = 1,
                                                    !.read_ok = read_ok]
    /\ UNCHANGED <<db, line_api, users, broadcast_history>>
    /\ UNCHANGED <<svars, tvars, dvars, ivars, rvars>>

(* one iteration of the for loop *)
PushMessage(ok) ==
    /\ bc.phase = "sending"
    /\ ~LoopOver(bc, Iterated(bc, get_all_users(db, users, TRUE)))
    /\ bc' = push_message(bc, Iterated(bc, get_all_users(db, users, TRUE)), ok)
    /\ UNCHANGED <<db, line_api, users, broadcast_history, broadcasts>>
    /\ UNCHANGED <<svars, tvars, dvars, ivars, rvars>>

(* after the loop: the result dictionary is returned *)
Return ==
    /\ bc.phase = "sending"
    /\ LoopOver(bc, Iterated(bc, get_all_users(db, users, TRUE)))
    /\ bc' = [bc EXCEPT !.phase = "returned",
                        !.result = Result(bc.sent_count, bc.failed_count)]
    /\ UNCHANGED <<db, line_api, users, broadcast_history, broadcasts>>
    /\ UNCHANGED <<svars, tvars, dvars, ivars, rvars>>

(* an exception of the add is caught inside save_broadcast_history and   *)
(* logged; the function returns                                           *)
SaveRaises(b) == [b EXCEPT !.phase = "raised"]
SaveLogged(b) == [b EXCEPT !.phase = "saved"]

(* handle_message, line 318: save_broadcast_history(user_id, text, result) *)
(* returns at once without a database; otherwise the add succeeds or      *)
(* raises                                                                 *)
SaveBroadcastHistory(write_ok) ==
    /\ bc.phase = "returned"
    /\ IF db /\ write_ok
       THEN /\ broadcast_history' = Append(broadcast_history, HistoryEntry(bc.admin_id, bc.result))
            /\ bc' = [bc EXCEPT !.phase = "saved", !.wrote = TRUE]
       ELSE /\ broadcast_history' = broadcast_history
            /\ bc' = IF db THEN SaveLogged(bc) ELSE [bc EXCEPT !.phase = "saved"]
    /\ UNCHANGED <<db, line_api, users, broadcasts>>
    /\ UNCHANGED <<svars, tvars, dvars, ivars, rvars>>

(* handle_message, line 319: reply_message = TextMessage(text=            *)
(* result['message']), sent to the operator                               *)
ReplyResult ==
    /\ bc.phase = "saved"
    /\ bc' = [bc EXCEPT !.phase = "replied", !.reply = bc.result.message]
    /\ UNCHANGED <<db, line_api, users, broadcast_history, broadcasts>>
    /\ UNCHANGED <<svars, tvars, dvars, ivars, rvars>>

NextBroadcast ==
    \/ TrackUser
    \/ \E admin_id \in ADMIN_USER_IDS, read_ok \in BOOLEAN : BroadcastMessage(admin_id, read_ok)
    \/ \E ok \in BOOLEAN : PushMessage(ok)
    \/ Return
    \/ \E write_ok \in BOOLEAN : SaveBroadcastHistory(write_ok)
    \/ ReplyResult

SpecBroadcast == InitBroadcast /\ [][NextBroadcast]_vars

(* the broadcast_message invocation has returned its dictionary *)
Returned == bc.phase \in {"returned", "saved", "replied"}

(* the ids of the list bound to user_ids *)
Snapshot == {bc.user_ids[i] : i \in DOMAIN bc.user_ids}

(* the pushes of the invocation that raised *)
Failures == {i \in DOMAIN bc.outcomes : ~bc.outcomes[i]}

(* C11: whenever broadcast_message has returned, sent_count + failed_count *)
(* of its result equals the number of recipients of the snapshot it took,  *)
(* 0 + 0 = 0 when it took none or the snapshot was empty                   *)
C11_AttemptedIsSentPlusFailed ==
    Returned =>
        /\ bc.result.sent_count + bc.result.failed_count = Len(bc.user_ids)
        /\ bc.user_ids = <<>> => bc.result.sent_count = 0 /\ bc.result.failed_count = 0

(* a broadcast to three recipients or more returned with pushes of both   *)
(* outcomes                                                               *)
C11_Witness ==
    /\ Returned
    /\ Len(bc.user_ids) >= 3
    /\ bc.result.sent_count > 0
    /\ bc.result.failed_count > 0

(* C12: a broadcast to 5 recipients of which 2 pushes fail returns        *)
(* sent_count 3 and failed_count 2, and the history document written for  *)
(* an operator's broadcast carries the sent_count and failed_count of the *)
(* result returned to the operator                                        *)
C12_HistoryCarriesResultCounts ==
    /\ Returned /\ Len(bc.user_ids) = 5 /\ Cardinality(Failures) = 2
          => bc.result.sent_count = 3 /\ bc.result.failed_count = 2
    /\ bc.phase = "saved" /\ bc.wrote
          => /\ broadcast_history # <<>>
             /\ broadcast_history[Len(broadcast_history)].sent_count = bc.result.sent_count
             /\ broadcast_history[Len(broadcast_history)].failed_count = bc.result.failed_count
             /\ broadcast_history[Len(broadcast_history)].admin_id = bc.admin_id

(* 2 of 5 pushes failed and the history document is written *)
C12_Witness ==
    /\ bc.phase = "saved"
    /\ bc.wrote
    /\ Len(bc.user_ids) = 5
    /\ Cardinality(Failures) = 2
    /\ broadcast_history[Len(broadcast_history)].sent_count = 3
    /\ broadcast_history[Len(broadcast_history)].failed_count = 2

(* C13: within one invocation no recipient is pushed to twice, only       *)
(* recipients of the snapshot are pushed to, and when the invocation      *)
(* returns every recipient of the snapshot has been pushed to exactly     *)
(* once, the pushes after a failed one included                           *)
C13_OneAttemptPerRecipient ==
    /\ \A r \in Recipients : bc.attempts[r] <= 1
    /\ \A r \in Recipients \ Snapshot : bc.attempts[r] = 0
    /\ Returned =>
          /\ \A r \in Snapshot : bc.attempts[r] = 1
          /\ Len(bc.outcomes) = Len(bc.user_ids)

(* the first push failed and the loop went on to the other recipients *)
C13_Witness ==
    /\ Returned
    /\ Len(bc.user_ids) >= 2
    /\ ~bc.outcomes[1]
    /\ \A r \in Snapshot : bc.attempts[r] = 1

(* C14: an invocation reads get_all_users at most once, exactly once when *)
(* the push client is configured, and a sender that track_user records    *)
(* while the loop is running is not pushed to by that invocation          *)
C14_SnapshotTakenOnce ==
    /\ bc.reads <= 1
    /\ bc.phase # "none" /\ line_api => bc.reads = 1
    /\ \A r \in bc.late \ Snapshot : bc.attempts[r] = 0
    /\ \A r \in Recipients : bc.attempts[r] > 0 => r \in Snapshot

(* a sender was recorded while the loop was running, and the invocation   *)
(* returned without a push to it                                          *)
C14_Witness ==
    /\ Returned
    /\ bc.user_ids # <<>>
    /\ bc.late \ Snapshot # {}
    /\ \A r \in bc.late \ Snapshot : bc.attempts[r] = 0 /\ r \in users

---------------------------------------------------------------------------
(* Part 4.  The command loop of handle_message taken alone: a table of    *)
(* rules and a message in, the rule, the keyword and the handlers         *)
(* invoked out                                                            *)

(* a rule of a probed table has at most this many keywords *)
MaxKeywords == 2

(* a probed message has at most this many characters *)
MaxMessageLen == 3

(* the sequences over S of length 1 to n *)
SeqsUpTo(S, n) == UNION {[1..k -> S] : k \in 1..n}

(* "a", "ab", "bc", "abc" *)
ProbeKeywords == {<<97>>, <<97, 98>>, <<98, 99>>, <<97, 98, 99>>}

(* tables of two rules, an earlier one with handler h1 and a later one    *)
(* with handler h2                                                        *)
ProbeTables ==
    {<<[keywords |-> k1, action |-> "h1"], [keywords |-> k2, action |-> "h2"]>> :
        k1 \in SeqsUpTo(ProbeKeywords, MaxKeywords),
        k2 \in SeqsUpTo(ProbeKeywords, MaxKeywords)}

(* the messages over a, b, c *)
ProbeMessages == SeqsUpTo({97, 98, 99}, MaxMessageLen)

(* R1 = (["a", "ab"], h1) before R2 = (["abc"], h2) *)
TableR1R2 ==
    <<[keywords |-> <<<<97>>, <<97, 98>>>>, action |-> "h1"],
      [keywords |-> <<<<97, 98, 99>>>>, action |-> "h2"]>>

(* the one rule (["go"], h1) *)
GO == <<103, 111>>
GoTable == <<[keywords |-> <<GO>>, action |-> "h1"]>>

(* "go", "go!", "good", "ago", "x ago", "a go", "gogo", "dog" *)
GoMessages ==
    {<<103, 111>>, <<103, 111, 33>>, <<103, 111, 111, 100>>, <<97, 103, 111>>,
     <<120, 32, 97, 103, 111>>, <<97, 32, 103, 111>>, <<103, 111, 103, 111>>,
     <<100, 111, 103>>}

(* a table and a message the command loop has not been applied to yet *)
Unapplied(commands, message) ==
    [commands |-> commands, message |-> message, applied |-> FALSE, rule |-> 0,
     keyword |-> <<>>, invoked |-> <<>>]

(* the tables and messages each module's loop is applied to: the tables   *)
(* over a, b, c in the two modules with the substring matcher, the table  *)
(* of "go" in all three                                                   *)
Probes(module) ==
    {Unapplied(GoTable, message) : message \in GoMessages}
    \cup IF module \in Impls
         THEN {Unapplied(commands, message) :
                  commands \in ProbeTables, message \in ProbeMessages}
         ELSE {}

(* if matched: break *)
NoBreak(matched) == FALSE
Break(matched) == matched

(* The two loops as they run, from rule r on: the handlers invoked, in    *)
(* order.  A rule with a matching keyword has its handler called and sets *)
(* matched; the outer loop then breaks.                                   *)
RECURSIVE RunLoop(_, _, _, _)
RunLoop(module, commands, r, user_message_lower) ==
    IF r > Len(commands) THEN <<>>
    ELSE IF MatchedKeyword(module, commands[r], user_message_lower) # <<>>
         THEN <<commands[r].action>> \o
              (IF Break(TRUE) THEN <<>>
               ELSE RunLoop(module, commands, r + 1, user_message_lower))
         ELSE RunLoop(module, commands, r + 1, user_message_lower)

(* the command loop applied to a probe *)
Applied(module, p) ==
    LET Outcome(rule, user_message_lower) ==
            [p EXCEPT !.applied = TRUE,
                      !.rule = rule,
                      !.keyword = IF rule = 0 THEN <<>>
                                  ELSE MatchedKeyword(module, p.commands[rule], user_message_lower),
                      !.invoked = RunLoop(module, p.commands, 1, user_message_lower)]
    IN Outcome(MatchedRuleIn(module, p.commands, Lower(p.message)), Lower(p.message))

InitRouter ==
    /\ impl \in DispatchImpls
    /\ InitHandlers
    /\ db = TRUE
    /\ line_api = TRUE
    /\ InitDirectory
    /\ InitWorkers
    /\ probe \in Probes(impl)
    /\ Untested

(* handle_message from "for keywords, action in COMMANDS" to the end of   *)
(* the loop                                                               *)
ApplyCommandLoop ==
    /\ ~probe.applied
    /\ probe' = Applied(impl, probe)
    /\ UNCHANGED <<svars, tvars, dvars, bvars, ivars, uvars>>

NextRouter == ApplyCommandLoop

SpecRouter == InitRouter /\ [][NextRouter]_vars

(* the keyword at position i of a rule occurs in the message *)
Occurs(rule, i, user_message_lower) ==
    Contains(user_message_lower, Lower(rule.keywords[i]))

(* the rule has a keyword that occurs in the message *)
HasMatch(rule, user_message_lower) ==
    \E i \in DOMAIN rule.keywords : Occurs(rule, i, user_message_lower)

(* position i holds the keyword the rule is matched through: one that     *)
(* occurs, no occurring keyword is longer, and every occurring keyword    *)
(* before it is shorter                                                   *)
LongestFirst(rule, i, user_message_lower) ==
    /\ Occurs(rule, i, user_message_lower)
    /\ \A j \in DOMAIN rule.keywords :
          Occurs(rule, j, user_message_lower)
             => /\ Len(rule.keywords[j]) <= Len(rule.keywords[i])
                /\ j < i => Len(rule.keywords[j]) < Len(rule.keywords[i])

(* C15: in handlers and handlers_optimized the command loop resolves a    *)
(* message to the first rule of the table that has a keyword occurring in *)
(* the message, whatever keywords later rules have; within that rule to   *)
(* the longest occurring keyword, the earliest listed among equally long  *)
(* ones; it invokes that rule's handler and no other; with R1 before R2   *)
(* the message "abc" resolves to R1 through "ab"                          *)
C15_FirstRuleLongestKeyword ==
    (probe.applied /\ impl \in Impls) =>
        LET m == Lower(probe.message)
            table == probe.commands
        IN /\ IF \E r \in DOMAIN table : HasMatch(table[r], m)
              THEN /\ probe.rule \in DOMAIN table
                   /\ HasMatch(table[probe.rule], m)
                   /\ \A r \in 1..(probe.rule - 1) : ~HasMatch(table[r], m)
                   /\ \E i \in DOMAIN table[probe.rule].keywords :
                         /\ LongestFirst(table[probe.rule], i, m)
                         /\ probe.keyword = table[probe.rule].keywords[i]
                   /\ probe.invoked = <<table[probe.rule].action>>
              ELSE /\ probe.rule = 0
                   /\ probe.invoked = <<>>
           /\ (table = TableR1R2 /\ probe.message = <<97, 98, 99>>)
                 => /\ probe.rule = 1
                    /\ probe.keyword = <<97, 98>>
                    /\ probe.invoked = <<"h1">>

(* R1 before R2 and the message "abc": resolved to R1 through "ab", h1    *)
(* alone invoked                                                          *)
C15_Witness ==
    /\ probe.applied
    /\ impl \in Impls
    /\ probe.commands = TableR1R2
    /\ probe.message = <<97, 98, 99>>
    /\ probe.rule = 1
    /\ probe.keyword = <<97, 98>>
    /\ probe.invoked = <<"h1">>

(* the probe is the keyword "go" against the given message, applied *)
GoProbe(message) ==
    /\ probe.applied
    /\ probe.commands = GoTable
    /\ probe.message = message

---------------------------------------------------------------------------
(* Part 5.  The worker threads on their way through handle_message, and   *)
(* the /stats endpoint                                                    *)

(* the worker threads take at most this many messages in one behaviour *)
MaxIntakes == 3

(* what handle_message runs for a message that is not limited: a rule's   *)
(* handler, the fallback, or (handlers_optimized) an operator's broadcast *)
Works(module) ==
    IF module = "handlers_optimized"
    THEN {"call_action", "get_gemini_response", "broadcast_message"}
    ELSE {"call_action", "get_gemini_response"}

(* where a thread is while it holds the lock of its with block *)
Inside == {"is_rate_limited locked", "get_rate_limit_status locked"}

(* leaving the with block, by a return inside it or at its end *)
KeepLock(w) == w
Release(w) == NoThread

(* an access to _user_message_history or _banned_users *)
Access(by, op) == [by |-> by, op |-> op, holder |-> _rate_limit_lock]

(* where handle_message goes when is_rate_limited has returned *)
AfterLimiter(module, limited, work) ==
    IF ~limited THEN work
    ELSE IF module = "handlers_optimized" THEN "get_rate_limit_status"
    ELSE "reply_to_line"

(* what the worker threads leave alone *)
wvars == <<impl, RATE_LIMIT_MAX, RATE_LIMIT_WINDOW, now, ticks, pc, calls,
           arrivals, verdicts, last>>

InitIntake ==
    /\ impl \in Impls
    /\ InitHandlers
    /\ db \in BOOLEAN
    /\ line_api = TRUE
    /\ InitDirectory
    /\ InitWorkers
    /\ probe = NoProbe
    /\ Untested

(* handle_message is entered with a message: an empty text goes to the    *)
(* reply; otherwise handlers_optimized goes on to track_user, handlers to *)
(* is_rate_limited, whose first line reads the clock                      *)
Arrive(w, u, empty) ==
    /\ where[w] = "idle"
    /\ intakes < MaxIntakes
    /\ intakes' = intakes + 1
    /\ user_id' = [user_id EXCEPT ![w] = u]
    /\ where' = [where EXCEPT ![w] = IF empty THEN "reply_to_line"
                                     ELSE IF impl = "handlers_optimized" THEN "track_user"
                                     ELSE "is_rate_limited"]
    /\ now_ts' = [now_ts EXCEPT ![w] = IF ~empty /\ impl = "handlers" THEN now ELSE @]
    /\ UNCHANGED <<wvars, dvars, bvars, rvars, access, _rate_limit_lock,
                   _user_message_history, _banned_users>>
    /\ UNCHANGED tracked

(* how track_user can end: the document is set and it returns True; it   *)
(* returns False without a database; the set raises, which track_user     *)
(* catches, logs and answers with False                                   *)
TrackOutcomes(database) ==
    IF database THEN {"recorded", "write error"} ELSE {"no database"}

(* where handle_message goes after track_user *)
TrackRaises(outcome) == IF outcome = "write error" THEN "raised" ELSE "is_rate_limited"
AfterTrack(outcome) == "is_rate_limited"

(* handlers_optimized, line 284: broadcast.track_user(user_id), then      *)
(* is_rate_limited is entered and reads the clock                         *)
TrackSender(w, outcome) ==
    /\ where[w] = "track_user"
    /\ users' = IF outcome = "recorded" THEN track_user(db, users, user_id[w]) ELSE users
    /\ tracked' = [tracked EXCEPT ![w] = outcome]
    /\ where' = [where EXCEPT ![w] = AfterTrack(outcome)]
    /\ now_ts' = [now_ts EXCEPT ![w] = now]
    /\ UNCHANGED <<wvars, dvars, rvars, access, intakes, user_id, _rate_limit_lock,
                   _user_message_history, _banned_users,
                   db, line_api, bc, broadcast_history, broadcasts>>

(* with _rate_limit_lock: of is_rate_limited, and of                      *)
(* get_rate_limit_status, which reads the clock before it                 *)
TakeLock(w) ==
    /\ where[w] \in {"is_rate_limited", "get_rate_limit_status"}
    /\ _rate_limit_lock = NoThread
    /\ _rate_limit_lock' = w
    /\ where' = [where EXCEPT ![w] = IF @ = "is_rate_limited"
                                     THEN "is_rate_limited locked"
                                     ELSE "get_rate_limit_status locked"]
    /\ now_ts' = [now_ts EXCEPT ![w] = IF where[w] = "get_rate_limit_status" THEN now ELSE @]
    /\ UNCHANGED <<wvars, dvars, bvars, rvars, access, intakes, user_id,
                   _user_message_history, _banned_users>>
    /\ UNCHANGED tracked

(* the with block of is_rate_limited; the lock is released as the call    *)
(* returns, and handle_message goes on                                    *)
CriticalSection(w, work) ==
    /\ where[w] = "is_rate_limited locked"
    /\ LET r == Limiter(user_id[w], now_ts[w], _user_message_history, _banned_users)
       IN /\ _user_message_history' = r.history
          /\ _banned_users' = r.banned
          /\ where' = [where EXCEPT ![w] = AfterLimiter(impl, r.ret, work)]
    /\ access' = Access(w, "write")
    /\ _rate_limit_lock' = Release(w)
    /\ UNCHANGED <<wvars, dvars, bvars, rvars, intakes, user_id, now_ts>>
    /\ UNCHANGED tracked

(* the with block of get_rate_limit_status: reads only *)
StatusSection(w) ==
    /\ where[w] = "get_rate_limit_status locked"
    /\ access' = Access(w, "read")
    /\ _rate_limit_lock' = Release(w)
    /\ where' = [where EXCEPT ![w] = "reply_to_line"]
    /\ UNCHANGED <<wvars, dvars, bvars, rvars, intakes, user_id, now_ts,
                   _user_message_history, _banned_users>>
    /\ UNCHANGED tracked

(* the handler, the fallback or the broadcast runs and returns; a handler *)
(* that returned nothing is followed by the fallback                      *)
Work(w, falls_back) ==
    /\ where[w] \in Works(impl)
    /\ where' = [where EXCEPT ![w] = IF @ = "call_action" /\ falls_back
                                     THEN "get_gemini_response"
                                     ELSE "reply_to_line"]
    /\ UNCHANGED <<wvars, dvars, bvars, rvars, access, intakes, user_id, now_ts,
                   _rate_limit_lock, _user_message_history, _banned_users>>
    /\ UNCHANGED tracked

(* reply_to_line, and handle_message returns *)
ReplyToLine(w) ==
    /\ where[w] = "reply_to_line"
    /\ where' = [where EXCEPT ![w] = "idle"]
    /\ user_id' = [user_id EXCEPT ![w] = NoUser]
    /\ now_ts' = [now_ts EXCEPT ![w] = 0]
    /\ tracked' = [tracked EXCEPT ![w] = "none"]
    /\ UNCHANGED <<wvars, dvars, bvars, rvars, access, intakes,
                   _rate_limit_lock, _user_message_history, _banned_users>>

(* GET /stats of main.py and main_optimized.py: len() and a sum over      *)
(* handlers._user_message_history, in the thread of the request           *)
Stats ==
    /\ impl = "handlers"
    /\ access' = Access("stats", "read")
    /\ UNCHANGED <<wvars, dvars, bvars, rvars, where, intakes, user_id, now_ts,
                   _rate_limit_lock, _user_message_history, _banned_users>>
    /\ UNCHANGED tracked

NextIntake ==
    \/ Tick
    \/ \E w \in Threads, u \in Users, empty \in BOOLEAN : Arrive(w, u, empty)
    \/ \E w \in Threads, outcome \in TrackOutcomes(db) : TrackSender(w, outcome)
    \/ \E w \in Threads : TakeLock(w)
    \/ \E w \in Threads, work \in Works(impl) : CriticalSection(w, work)
    \/ \E w \in Threads : StatusSection(w)
    \/ \E w \in Threads, falls_back \in BOOLEAN : Work(w, falls_back)
    \/ \E w \in Threads : ReplyToLine(w)
    \/ Stats

SpecIntake == InitIntake /\ [][NextIntake]_vars

(* C17 as claimed: every read and write of _user_message_history and      *)
(* _banned_users is made by the thread that holds _rate_limit_lock at     *)
(* that moment, the reads of /stats included                              *)
C17_AccessUnderLock ==
    access.op # "none" => access.holder = access.by

(* C18: a thread that is in track_user, in a rule's handler, in the       *)
(* fallback, in a broadcast or in reply_to_line does not hold             *)
(* _rate_limit_lock; a thread holds it only inside the with block of      *)
(* is_rate_limited or get_rate_limit_status, so it is released by the     *)
(* time either returns                                                    *)
C18_NoLockOutsideLimiter ==
    \A w \in Threads :
        /\ where[w] \notin Inside => _rate_limit_lock # w
        /\ where[w] \in Inside => _rate_limit_lock = w

(* one thread is in a handler, the fallback or a broadcast, after a       *)
(* limiter call that took and released the lock, while the other thread   *)
(* holds the lock                                                         *)
C18_Witness ==
    /\ where["w1"] \in Works(impl)
    /\ access.by = "w1"
    /\ where["w2"] \in Inside
    /\ _rate_limit_lock = "w2"

(* C19 as claimed: in every reachable state the timestamps stored for a   *)
(* sender are in non-decreasing order, whatever the interleaving of the    *)
(* calls                                                                  *)
C19_StoredWindowNonDecreasing ==
    \A u \in DOMAIN _user_message_history :
        \A i, j \in DOMAIN _user_message_history[u] :
            i < j => _user_message_history[u][i] <= _user_message_history[u][j]

(* C20 as claimed: for every inbound message handle_message calls         *)
(* is_rate_limited exactly once, and no other call (a reply, track_user,  *)
(* a handler, the fallback) comes before it                               *)
C20_LimiterFirstExactlyOnce ==
    Answered =>
        /\ Count(hm.calls, "is_rate_limited") = 1
        /\ hm.calls[1] = "is_rate_limited"

---------------------------------------------------------------------------
(* Part 6.  Further properties of the dispatcher, the broadcast and the   *)
(* limiter                                                                *)

(* C21 as claimed: handling a message of a rate limited or banned sender  *)
(* calls nothing but the limiter and the reply of the notice: no handler, *)
(* no fallback, no write to the directory or to any store                 *)
C21_LimitedSenderOnlyNotice ==
    (Answered /\ RateLimited) =>
        /\ \A i \in DOMAIN hm.calls :
              hm.calls[i] \in {"is_rate_limited", "get_rate_limit_status", "reply_to_line"}
        /\ hm.reply.kind \in {"RATE_LIMITED", "BAN_NOTICE"}

(* the message handled last began with one of the three broadcast         *)
(* prefixes                                                               *)
BroadcastPrefixed ==
    \/ StartsWith(Message, BROADCAST_PREFIX)
    \/ StartsWith(Message, URGENT_PREFIX)
    \/ StartsWith(Message, REMINDER_PREFIX)

(* handle_message called broadcast_message or save_broadcast_history *)
Broadcasted ==
    \/ Called(hm.calls, "broadcast_message")
    \/ Called(hm.calls, "save_broadcast_history")

(* C22: handle_message calls broadcast_message and save_broadcast_history *)
(* only for a sender in ADMIN_USER_IDS (and only in handlers_optimized);  *)
(* a message with a broadcast prefix from any other sender calls neither  *)
(* and is not answered with a broadcast result                            *)
C22_BroadcastOnlyForAdmins ==
    Answered =>
        /\ Broadcasted => hm.user \in ADMIN_USER_IDS /\ impl = "handlers_optimized"
        /\ (BroadcastPrefixed /\ hm.user \notin ADMIN_USER_IDS)
              => ~Broadcasted /\ hm.reply.kind \notin AdminReplies

(* a sender outside ADMIN_USER_IDS sent a broadcast command that passed   *)
(* the limiter: nothing was broadcast and the message got one reply       *)
C22_Witness ==
    /\ Answered /\ impl = "handlers_optimized"
    /\ hm.user \notin ADMIN_USER_IDS
    /\ BroadcastPrefixed
    /\ ~RateLimited
    /\ ~Broadcasted
    /\ Count(hm.calls, "reply_to_line") = 1

(* the text broadcast_message built from its two counters, or that of its *)
(* early returns                                                          *)
ResultMessage ==
    IF ~line_api THEN NotConfigured.message
    ELSE IF bc.user_ids = <<>> THEN NoUsersFound.message
    ELSE Result(Len(bc.outcomes) - Cardinality(Failures), Cardinality(Failures)).message

(* C23: whether the history document was written, could not be written or *)
(* was not attempted, save_broadcast_history returns normally, the result *)
(* of the broadcast is as broadcast_message returned it, and the reply to *)
(* the operator is the text of that result, with its counts               *)
C23_HistoryFailureKeepsResult ==
    /\ bc.phase # "raised"
    /\ bc.phase \in {"saved", "replied"} =>
          /\ bc.result.message = ResultMessage
          /\ bc.result.sent_count = bc.sent_count
          /\ bc.result.failed_count = bc.failed_count
    /\ bc.phase = "replied" => bc.reply = ResultMessage

(* with a database, the add of the history document raised after a        *)
(* broadcast with pushes of both outcomes, and the operator got the reply *)
(* with both counts                                                       *)
C23_Witness ==
    /\ bc.phase = "replied"
    /\ db /\ ~bc.wrote
    /\ bc.sent_count > 0 /\ bc.failed_count > 0
    /\ bc.reply = <<"sent", bc.sent_count, "failed", bc.failed_count>>

(* a thread past track_user whose write to the directory did not happen   *)
TrackFailed(w) == tracked[w] \in {"no database", "write error"}

(* C24 as claimed: track_user is called for every inbound message, and a  *)
(* failure of it is not propagated: every message a thread of             *)
(* handlers_optimized has in hand beyond track_user has had its sender    *)
(* passed to track_user, and no thread has left handle_message with an    *)
(* exception of track_user                                                *)
C24_TrackUserEveryMessage ==
    impl = "handlers_optimized" =>
        \A w \in Threads :
            /\ where[w] # "raised"
            /\ where[w] \notin {"idle", "track_user"} => tracked[w] \in TrackOutcomes(db)

(* the part of C24 that holds: whatever way track_user ends, the thread   *)
(* goes on to is_rate_limited, and a failed track_user leaves the         *)
(* directory as it was                                                    *)
TrackFailureNotPropagated ==
    [][\A w \in Threads :
          (where[w] = "track_user" /\ where'[w] # "track_user") =>
              /\ where'[w] = "is_rate_limited"
              /\ TrackFailed(w)' => users' = users]_vars

(* C28 as claimed: a ban notice is sent only while the sender's ban is    *)
(* unexpired at the clock get_rate_limit_status read, ban_until - now_ts  *)
(* being the wait the notice shows: the wait is never zero or negative    *)
C28_BanNoticeWhileUnexpired ==
    (Answered /\ hm.reply.kind = "BAN_NOTICE") => hm.reply.remaining > 0

---------------------------------------------------------------------------
(* Part 7.  The stored window, checked under SpecLimiter *)

(* the call served last stored its sender's window: it got as far as      *)
(* _user_message_history[user_id] = recent                                *)
Stored == Served /\ last.tier \in {"allowed", "soft"}

(* the window now stored for the sender of the call served last *)
StoredNow == DictGet(_user_message_history, last.user, <<>>)

(* C25: when is_rate_limited has stored a sender's window, every stored   *)
(* timestamp t satisfies now_ts - t < RATE_LIMIT_WINDOW for the now_ts of *)
(* that call, the call's own timestamp being among them                   *)
C25_StoredWindowPruned ==
    Stored =>
        /\ \A i \in DOMAIN StoredNow : last.ts - StoredNow[i] < RATE_LIMIT_WINDOW
        /\ \E i \in DOMAIN StoredNow : StoredNow[i] = last.ts

(* a call found a timestamp that was a window old and one that was not:   *)
(* it dropped the first and stored the second with its own                *)
C25_Witness ==
    /\ Stored
    /\ \E i \in DOMAIN last.stored_before :
          last.ts - last.stored_before[i] >= RATE_LIMIT_WINDOW
    /\ \E i \in DOMAIN last.stored_before :
          last.ts - last.stored_before[i] < RATE_LIMIT_WINDOW
    /\ Len(StoredNow) >= 2

(* C26: in every reachable state of the enhanced limiter no sender's      *)
(* stored window holds more than 2 * RATE_LIMIT_MAX + 1 timestamps,       *)
(* whatever the interleaving of the calls                                 *)
C26_StoredWindowBounded ==
    Enhanced =>
        \A u \in DOMAIN _user_message_history :
            Len(_user_message_history[u]) <= 2 * RATE_LIMIT_MAX + 1

(* a sender's window is full, 2 * RATE_LIMIT_MAX + 1 timestamps, and the  *)
(* sender's next call has been turned away by the cooldown tier without   *)
(* being appended                                                         *)
C26_Witness ==
    /\ Enhanced
    /\ Served
    /\ RATE_LIMIT_MAX >= 1
    /\ last.tier = "cooldown"
    /\ Len(last.stored_before) = 2 * RATE_LIMIT_MAX + 1
    /\ StoredNow = last.stored_before

---------------------------------------------------------------------------
(* The limiter with a limit of two messages a window: the least limit at  *)
(* which two calls of a sender can be allowed before the window moves on  *)

ContendedLimit == 2

InitContended ==
    /\ impl \in Impls
    /\ InitLimits({ContendedLimit})
    /\ db = TRUE
    /\ line_api = TRUE
    /\ InitDirectory
    /\ InitWorkers
    /\ probe = NoProbe
    /\ Untested

SpecContended == InitContended /\ [][NextLimiter]_vars

(* how many of sender u's served calls with a timestamp in the interval   *)
(* of RATE_LIMIT_WINDOW seconds that starts at a returned False           *)
AllowedIn(u, a) ==
    Cardinality({i \in DOMAIN arrivals[u] :
                    /\ ~verdicts[u][i]
                    /\ a <= arrivals[u][i]
                    /\ arrivals[u][i] < a + RATE_LIMIT_WINDOW})

(* C27 as claimed: whatever the interleaving of the calls, of a sender's  *)
(* calls whose timestamps lie in one interval of RATE_LIMIT_WINDOW        *)
(* seconds at most RATE_LIMIT_MAX return False (an interval that holds    *)
(* the most allowed calls can be taken to start at one of them)           *)
C27_AtMostLimitAllowedPerWindow ==
    \A u \in Users :
        \A i \in DOMAIN arrivals[u] : AllowedIn(u, arrivals[u][i]) <= RATE_LIMIT_MAX

---------------------------------------------------------------------------
(* The frame of is_rate_limited, checked under SpecLimiter *)

(* a dictionary cut down to the entry of sender u, if it has one *)
Only(d, u) == [x \in (DOMAIN d) \cap {u} |-> d[x]]

(* thread w leaves is_rate_limited in this step *)
Returns(w) == pc[w] = "locked" /\ pc'[w] = "idle"

(* sender v's entries are the same before and after the step *)
Untouched(v) ==
    /\ Only(_user_message_history', v) = Only(_user_message_history, v)
    /\ Only(_banned_users', v) = Only(_banned_users, v)

(* C29: a call is_rate_limited(u) leaves every other sender's stored      *)
(* window and ban entry as they were, and what it returns and stores for  *)
(* u is what it would with no other sender in the dictionaries            *)
C29_OnlyOwnEntries ==
    [][\A w \in Threads :
          Returns(w) =>
              LET u == user_id[w]
                  alone == Limiter(u, now_ts[w], Only(_user_message_history, u),
                                   Only(_banned_users, u))
              IN /\ \A v \in Users \ {u} : Untouched(v)
                 /\ last'.ret = alone.ret
                 /\ last'.tier = alone.tier
                 /\ Only(_user_message_history', u) = alone.history
                 /\ Only(_banned_users', u) = alone.banned]_vars

(* a call of one sender has been served and has stored its window while   *)
(* the other sender has a stored window and a ban entry                   *)
C29_Witness ==
    /\ Served
    /\ Stored
    /\ \E v \in Users \ {last.user} :
          /\ v \in DOMAIN _banned_users
          /\ v \in DOMAIN _user_message_history
          /\ last.ts < _banned_users[v]

---------------------------------------------------------------------------
(* Recovery of a throttled sender, checked under SpecLimiter *)

(* the sender of the call served last had sent nothing for a window: each *)
(* of its earlier calls is at least RATE_LIMIT_WINDOW seconds older       *)
Quiet ==
    \A i \in 1..(Len(arrivals[last.user]) - 1) :
        last.ts - arrivals[last.user][i] >= RATE_LIMIT_WINDOW

(* the sender was not banned when the call was made: no entry, or an      *)
(* entry that had run out                                                 *)
NotBanned == last.ban_before = NoBan \/ last.ts >= last.ban_before

(* the call before the one served last, of the same sender, returned True *)
ThrottledBefore ==
    /\ Len(verdicts[last.user]) >= 2
    /\ verdicts[last.user][Len(verdicts[last.user]) - 1]

---------------------------------------------------------------------------
(* Part 8.  The command loop applied to the keywords of COMMANDS *)

(* each keyword of each rule of a module's COMMANDS, sent as a message    *)
KeywordProbes(module) ==
    {Unapplied(COMMANDS(module), COMMANDS(module)[r].keywords[k]) :
        <<r, k>> \in {rk \in (DOMAIN COMMANDS(module)) \X (1..8) :
                         rk[2] \in DOMAIN COMMANDS(module)[rk[1]].keywords}}

InitKeywords ==
    /\ impl \in DispatchImpls
    /\ InitHandlers
    /\ db = TRUE
    /\ line_api = TRUE
    /\ InitDirectory
    /\ InitWorkers
    /\ probe \in KeywordProbes(impl)
    /\ Untested

SpecKeywords == InitKeywords /\ [][NextRouter]_vars

(* the rule lists the message among its keywords *)
Lists(rule, message) == \E k \in DOMAIN rule.keywords : rule.keywords[k] = message

(* C31 as claimed: in handlers.py a message that is exactly a keyword of  *)
(* COMMANDS is resolved by the command loop to the rule that lists that   *)
(* keyword: no keyword is shadowed by a keyword of an earlier rule        *)
C31_NoKeywordShadowed ==
    (probe.applied /\ impl = "handlers") =>
        /\ probe.rule \in DOMAIN probe.commands
        /\ Lists(probe.commands[probe.rule], probe.message)

---------------------------------------------------------------------------
(* Part 9.  call_action taken alone: a handler of COMMANDS and the way    *)
(* its body ends in, the invocations of the handler out                   *)

(* the handlers a module's COMMANDS names *)
Actions(module) == {COMMANDS(module)[r].action : r \in DOMAIN COMMANDS(module)}

(* the parameter list of a handler: user_message, user_message with a     *)
(* default, or none.  handlers and handlers_optimized import theirs from  *)
(* features.py, mtc_assistant_bot defines its own                         *)
Parameters(module, action) ==
    IF module = "mtc_assistant_bot"
    THEN IF action = "get_exam_countdown_message" THEN "required"
         ELSE IF action = "get_time_until_next_class_message" THEN "optional"
         ELSE "none"
    ELSE IF action = "get_music_link_message" THEN "required" ELSE "optional"

(* the call binds: the arguments fit the parameter list *)
Binds(parameters, args) ==
    \/ parameters = "optional"
    \/ parameters = "required" /\ args = "message"
    \/ parameters = "none" /\ args = "none"

(* one call of the handler: with which arguments, whether its body ran,   *)
(* and how the call ended; a call that does not bind raises TypeError      *)
(* before the body                                                        *)
Invocation(parameters, args, body) ==
    [args |-> args, ran |-> Binds(parameters, args),
     ends |-> IF Binds(parameters, args) THEN body ELSE "raises TypeError"]

(* what call_action did *)
Acted(invocations, final) ==
    [invocations |-> invocations, raised |-> final.ends # "returns",
     reply |-> IF final.ends = "returns" THEN "HANDLER" ELSE ""]

(* handlers.call_action, handlers_optimized.call_action: co_argcount      *)
(* decides the arguments, an exception becomes the ACTION_ERROR message   *)
call_action_by_argcount(parameters, bodies) ==
    LET Once(first) ==
            [invocations |-> <<first>>, raised |-> FALSE,
             reply |-> IF first.ends = "returns" THEN "HANDLER" ELSE "ACTION_ERROR"]
    IN Once(Invocation(parameters, IF parameters # "none" THEN "message" ELSE "none",
                       bodies[1]))

(* mtc_assistant_bot.call_action: action(user_message), and after a       *)
(* TypeError action(); what still fails is raised again                   *)
call_action_by_probe(parameters, bodies) ==
    LET Retry(first) ==
            IF first.ends = "raises TypeError"
            THEN LET second == Invocation(parameters, "none",
                                          IF first.ran THEN bodies[2] ELSE bodies[1])
                 IN Acted(<<first, second>>, second)
            ELSE Acted(<<first>>, first)
    IN Retry(Invocation(parameters, "message", bodies[1]))

(* a handler and the ways its body ends, the first and the second time it *)
(* runs                                                                   *)
Unacted(module, action, bodies) ==
    [module |-> module, action |-> action, bodies |-> bodies, applied |-> FALSE,
     invocations |-> <<>>, raised |-> FALSE, reply |-> ""]

InitAction ==
    /\ impl \in DispatchImpls
    /\ InitHandlers
    /\ db = TRUE
    /\ line_api = TRUE
    /\ InitDirectory
    /\ InitWorkers
    /\ probe = NoProbe
    /\ send = NoSend
    /\ pool = NoPool
    /\ reminder = NoReminder
    /\ collection = NoCollection
    /\ act \in {Unacted(impl, action, bodies) :
                   action \in Actions(impl),
                   bodies \in [1..2 -> HandlerOutcomes]}

(* call_action(action, user_message) *)
CallAction ==
    /\ ~act.applied
    /\ LET done == IF impl = "mtc_assistant_bot"
                   THEN call_action_by_probe(Parameters(impl, act.action), act.bodies)
                   ELSE call_action_by_argcount(Parameters(impl, act.action), act.bodies)
       IN act' = [act EXCEPT !.applied = TRUE, !.invocations = done.invocations,
                             !.raised = done.raised, !.reply = done.reply]
    /\ UNCHANGED <<svars, tvars, dvars, bvars, ivars, probe, ButAct>>

NextAction == CallAction

SpecAction == InitAction /\ [][NextAction]_vars

(* C32 as claimed: call_action calls the rule's handler once and no more, *)
(* whatever way the handler ends, a TypeError from inside its body        *)
(* included: a handler that needs the message text is called with it, a   *)
(* handler that needs none is called with none                            *)
C32_HandlerCalledOnce ==
    act.applied =>
        /\ Len(act.invocations) = 1
        /\ act.invocations[1].ran
        /\ Parameters(impl, act.action) = "required" => act.invocations[1].args = "message"
        /\ Parameters(impl, act.action) = "none" => act.invocations[1].args = "none"

---------------------------------------------------------------------------
(* Part 10.  reply_to_line of mtc_assistant_bot: the retry loop *)

(* the greatest max_retries a caller passes *)
MaxRetries == 3

(* what reply_to_line is given: a list of messages with the               *)
(* configuration set, or one of the three things it returns False for     *)
(* before the loop                                                        *)
Given == {"messages", "no messages", "not a list", "no configuration"}

(* how one send attempt ends: a 2xx status (or none to read), another     *)
(* status, a requests exception, any other exception                      *)
SendOutcomes == {"2xx", "status error", "RequestException", "Exception"}

(* A backoff that also sleeps after the last attempt *)
BackoffAlways(attempt, max_retries) == <<2 ^ attempt>>

(* if attempt < max_retries - 1: time.sleep(2 ** attempt) *)
Backoff(attempt, max_retries) ==
    IF attempt < max_retries - 1 THEN <<2 ^ attempt>> ELSE <<>>

InitSend ==
    /\ impl = "mtc_assistant_bot"
    /\ InitHandlers
    /\ db = TRUE
    /\ line_api = TRUE
    /\ InitDirectory
    /\ InitWorkers
    /\ probe = NoProbe
    /\ act = NoAct
    /\ send = NoSend
    /\ pool = NoPool
    /\ reminder = NoReminder
    /\ collection = NoCollection

(* reply_to_line(reply_token, messages, max_retries): the three checks    *)
(* before the loop                                                        *)
ReplyToLineEnter(given, max_retries) ==
    /\ send.phase = "none"
    /\ send' = [NoSend EXCEPT !.max_retries = max_retries, !.given = given,
                              !.phase = IF given = "messages" THEN "loop" ELSE "returned"]
    /\ UNCHANGED <<svars, tvars, dvars, bvars, ivars, probe, ButSend>>

(* one turn of "for attempt in range(max_retries)": the send, and after a *)
(* failure the sleep and continue, the return False of a last status      *)
(* error, or the fall out of the loop                                     *)
SendAttempt(outcome) ==
    /\ send.phase = "loop"
    /\ send.attempt < send.max_retries
    /\ send' = [send EXCEPT
                  !.outcomes = Append(@, outcome),
                  !.attempt = @ + 1,
                  !.slept = IF outcome = "2xx" THEN @
                            ELSE @ \o Backoff(send.attempt, send.max_retries),
                  !.phase = IF outcome = "2xx" THEN "returned"
                            ELSE IF outcome = "status error"
                                    /\ ~(send.attempt < send.max_retries - 1)
                            THEN "returned"
                            ELSE "loop",
                  !.ret = outcome = "2xx"]
    /\ UNCHANGED <<svars, tvars, dvars, bvars, ivars, probe, ButSend>>

(* the loop is over: "Failed to send reply to LINE after %d attempts",    *)
(* return False                                                           *)
SendGiveUp ==
    /\ send.phase = "loop"
    /\ ~(send.attempt < send.max_retries)
    /\ send' = [send EXCEPT !.phase = "returned", !.ret = FALSE]
    /\ UNCHANGED <<svars, tvars, dvars, bvars, ivars, probe, ButSend>>

NextSend ==
    \/ \E given \in Given, max_retries \in 0..MaxRetries :
          ReplyToLineEnter(given, max_retries)
    \/ \E outcome \in SendOutcomes : SendAttempt(outcome)
    \/ SendGiveUp

SpecSend == InitSend /\ [][NextSend]_vars

(* the attempt succeeded *)
Succeeded(i) == send.outcomes[i] = "2xx"

(* C33: reply_to_line makes at most max_retries send attempts and none    *)
(* after the first that succeeds; it has slept 2^attempt seconds after    *)
(* each failed attempt but the last one allowed, so never after its last  *)
(* attempt; it returns True exactly when an attempt succeeded, and it     *)
(* never raises                                                           *)
C33_BoundedRetries ==
    /\ send.phase \in {"none", "loop", "returned"}
    /\ Len(send.outcomes) <= send.max_retries
    /\ \A i \in 1..(Len(send.outcomes) - 1) : ~Succeeded(i)
    /\ \A i \in DOMAIN send.slept : send.slept[i] = 2 ^ (i - 1)
    /\ Len(send.slept) < send.max_retries \/ send.slept = <<>>
    /\ send.phase = "returned" =>
          /\ send.ret = (\E i \in DOMAIN send.outcomes : Succeeded(i))
          /\ Len(send.slept) = IF send.outcomes = <<>> THEN 0 ELSE Len(send.outcomes) - 1
          /\ send.ret \/ send.given # "messages" \/ Len(send.outcomes) = send.max_retries

(* two attempts failed, each followed by its sleep of 1 and 2 seconds,    *)
(* and the third and last allowed attempt succeeded                       *)
C33_Witness ==
    /\ send.phase = "returned"
    /\ send.max_retries = 3
    /\ Len(send.outcomes) = 3
    /\ send.slept = <<1, 2>>
    /\ send.ret

---------------------------------------------------------------------------
(* Part 11.  get_line_api of handlers_optimized: the singleton under      *)
(* concurrent callers                                                     *)

(* get_line_api is called at most this many times *)
MaxApiCalls == 4

(* An inner check that is always passed *)
AlwaysUnset(client) == TRUE

(* if _line_api_client is None *)
IsUnset(client) == client = 0

InitPool ==
    /\ impl = "handlers_optimized"
    /\ InitHandlers
    /\ db = TRUE
    /\ line_api = TRUE
    /\ InitDirectory
    /\ InitWorkers
    /\ probe = NoProbe
    /\ act = NoAct
    /\ send = NoSend
    /\ reminder = NoReminder
    /\ collection = NoCollection
    /\ pool \in {[NoPool EXCEPT !.configuration = c] : c \in BOOLEAN}

(* get_line_api is entered: if _line_api_client is None and configuration *)
GetLineApi(w) ==
    /\ pool.at[w] = "idle"
    /\ pool.calls < MaxApiCalls
    /\ pool' = [pool EXCEPT !.calls = @ + 1,
                            !.at[w] = IF pool._line_api_client = 0 /\ pool.configuration
                                      THEN "with _api_client_lock" ELSE "return"]
    /\ UNCHANGED <<svars, tvars, dvars, bvars, ivars, probe, ButPool>>

(* with _api_client_lock: *)
TakeApiLock(w) ==
    /\ pool.at[w] = "with _api_client_lock"
    /\ pool._api_client_lock = NoThread
    /\ pool' = [pool EXCEPT !._api_client_lock = w, !.at[w] = "locked"]
    /\ UNCHANGED <<svars, tvars, dvars, bvars, ivars, probe, ButPool>>

(* under the lock: the second check, MessagingApi(ApiClient(...)) in the  *)
(* try, which sets the singleton to a new instance or raises and is       *)
(* logged; the lock is released                                           *)
Construct(w, ok) ==
    /\ pool.at[w] = "locked"
    /\ pool' = IF IsUnset(pool._line_api_client)
               THEN IF ok THEN [pool EXCEPT !._line_api_client = pool.built + 1,
                                            !.built = @ + 1,
                                            !._api_client_lock = NoThread,
                                            !.at[w] = "return"]
                    ELSE [pool EXCEPT !.failed = @ + 1,
                                      !._api_client_lock = NoThread,
                                      !.at[w] = "return"]
               ELSE [pool EXCEPT !._api_client_lock = NoThread, !.at[w] = "return"]
    /\ UNCHANGED <<svars, tvars, dvars, bvars, ivars, probe, ButPool>>

(* return _line_api_client *)
ReturnApi(w) ==
    /\ pool.at[w] = "return"
    /\ pool' = [pool EXCEPT !.at[w] = "idle",
                            !.returned = @ \cup {pool._line_api_client}]
    /\ UNCHANGED <<svars, tvars, dvars, bvars, ivars, probe, ButPool>>

NextPool ==
    \/ \E w \in Threads : GetLineApi(w)
    \/ \E w \in Threads : TakeApiLock(w)
    \/ \E w \in Threads, ok \in BOOLEAN : Construct(w, ok)
    \/ \E w \in Threads : ReturnApi(w)

SpecPool == InitPool /\ [][NextPool]_vars

(* C34: whatever the interleaving of the callers, the client is           *)
(* constructed successfully at most once; the callers that got a client   *)
(* all got that one instance; while no construction has succeeded the     *)
(* singleton is unset, so a call made after a failed construction goes to *)
(* the lock and tries again; without a configuration nothing is built     *)
C34_SingletonBuiltOnce ==
    /\ pool.built <= 1
    /\ pool.returned \subseteq {0, 1}
    /\ pool._line_api_client = pool.built
    /\ 1 \in pool.returned => pool._line_api_client = 1
    /\ ~pool.configuration => pool.built + pool.failed = 0
    /\ \A w \in Threads : pool.at[w] = "locked" <=> pool._api_client_lock = w

(* both threads passed the first check while the singleton was unset; one *)
(* construction failed, a caller got None; the next construction          *)
(* succeeded and a caller got the instance; the second thread found it    *)
(* set under the lock                                                     *)
C34_Witness ==
    /\ pool.failed >= 1
    /\ pool.built = 1
    /\ pool.returned = {0, 1}
    /\ pool.calls >= 3

---------------------------------------------------------------------------
(* Part 12.  broadcast_homework_reminder of broadcast.py *)

(* the homeworks the store can hold *)
Homeworks == {"H1", "H2", "H3"}

(* a due_date, in days from today: today, tomorrow, the day after *)
DueDates == 0..2

(* the names broadcast.py binds at module level: its imports (lines 7-12) *)
(* and its globals and functions                                          *)
ModuleNames ==
    {"ApiClient", "MessagingApi", "Configuration", "BroadcastRequest", "TextMessage",
     "PushMessageRequest", "logger", "ACCESS_TOKEN", "firestore", "db", "line_api",
     "set_database", "set_line_api", "track_user", "get_all_users", "get_user_count",
     "broadcast_message", "broadcast_homework_reminder", "create_announcement",
     "create_reminder", "create_urgent_alert", "save_broadcast_history",
     "get_broadcast_stats"}

(* evaluating a global name that the module does not bind raises NameError *)
Bound(name) == name \in ModuleNames

(* db.collection('homeworks').where('due_date', '==', tomorrow) *)
DueTomorrow(homeworks) == {h \in DOMAIN homeworks : homeworks[h] = 1}

InitReminder ==
    /\ impl = "handlers_optimized"
    /\ InitHandlers
    /\ db \in BOOLEAN
    /\ line_api = TRUE
    /\ InitDirectory
    /\ InitWorkers
    /\ probe = NoProbe
    /\ act = NoAct
    /\ send = NoSend
    /\ pool = NoPool
    /\ collection = NoCollection
    /\ reminder \in {[NoReminder EXCEPT !.homeworks = homeworks] :
                        homeworks \in UNION {[stored -> DueDates] : stored \in SUBSET Homeworks}}

(* broadcast_homework_reminder(): returns without a database; in the try  *)
(* computes tomorrow from datetime, queries the homeworks due then and    *)
(* calls broadcast_message with their list if there is any; an exception  *)
(* is logged                                                              *)
BroadcastHomeworkReminder ==
    /\ reminder.phase = "none"
    /\ reminder' =
          IF ~db
          THEN [reminder EXCEPT !.phase = "returned",
                                !.logged = "Firebase not available for homework reminder"]
          ELSE IF ~Bound("datetime")
          THEN [reminder EXCEPT !.phase = "returned",
                                !.logged = "Error sending homework reminder: NameError"]
          ELSE IF DueTomorrow(reminder.homeworks) # {}
          THEN [reminder EXCEPT !.phase = "returned",
                                !.calls = <<DueTomorrow(reminder.homeworks)>>]
          ELSE [reminder EXCEPT !.phase = "returned"]
    /\ UNCHANGED <<svars, tvars, dvars, bvars, ivars, probe, ButReminder>>

NextReminder == BroadcastHomeworkReminder

SpecReminder == InitReminder /\ [][NextReminder]_vars

(* C35 as claimed: broadcast_homework_reminder, with a store that holds a *)
(* homework due tomorrow, calls broadcast_message exactly once, with the  *)
(* list of the homeworks due tomorrow; with none due tomorrow, or without *)
(* the store, it calls it not at all                                      *)
C35_ReminderSentWhenDue ==
    reminder.phase = "returned" =>
        reminder.calls = IF db /\ DueTomorrow(reminder.homeworks) # {}
                         THEN <<DueTomorrow(reminder.homeworks)>>
                         ELSE <<>>

---------------------------------------------------------------------------
(* The broadcast when the directory cannot be read, checked under         *)
(* SpecBroadcast                                                          *)

(* the broadcast read the directory and the read failed *)
ReadFailed == bc.reads = 1 /\ ~bc.read_ok

(* C36: when the read of the recipient directory fails, broadcast_message *)
(* sends to nobody and returns success False with both counts 0, the      *)
(* result of an empty directory; nothing is raised, and the reply to the  *)
(* admin carries that result                                              *)
C36_ReadFailureIsNoUsers ==
    ReadFailed =>
        /\ bc.user_ids = <<>>
        /\ bc.outcomes = <<>>
        /\ \A r \in Recipients : bc.attempts[r] = 0
        /\ bc.phase \in {"returned", "saved", "replied"}
        /\ bc.result = NoUsersFound
        /\ bc.phase = "replied" => bc.reply = NoUsersFound.message

(* the directory holds recipients, its read failed, and the admin has     *)
(* been answered "No users found"                                         *)
C36_Witness ==
    /\ ReadFailed
    /\ db
    /\ users # {}
    /\ bc.phase = "replied"
    /\ bc.reply = <<"No users found">>

---------------------------------------------------------------------------
(* Part 13.  handle_message when its collaborators fail                   *)

(* What can fail while a message is handled, besides the rule handler and *)
(* the model (both among the inputs of the dispatcher): the recipient     *)
(* directory (the users collection), the broadcast log, the homework      *)
(* store, the push to a recipient, the reply.                             *)
Collaborators == {"directory", "history", "store", "push", "reply"}

(* the functions of broadcast.py whose use of Firestore or of the LINE    *)
(* API is in a try whose except logs and returns                          *)
GuardedBroadcast ==
    {"track_user", "broadcast_message", "save_broadcast_history",
     "get_broadcast_stats", "get_user_count"}

(* the functions of features.py whose use of the homework store is in a   *)
(* try whose except returns the error text                                *)
GuardedFeatures ==
    {"add_homework_to_db", "get_homeworks_from_db", "clear_homework_db"}

(* reply_to_line: reply_message is sent in a try whose except returns     *)
(* False (handlers: so is the client's construction; handlers_optimized:  *)
(* get_line_api has a try of its own)                                     *)
GuardedReply == {"reply_to_line"}

(* what the functions handle_message calls reach *)
Reaches(op) ==
    IF op \in {"track_user", "get_user_count"} THEN {"directory"}
    ELSE IF op = "broadcast_message" THEN {"directory", "push"}
    ELSE IF op = "save_broadcast_history" THEN {"history"}
    ELSE IF op = "get_broadcast_stats" THEN {"history", "directory"}
    ELSE IF op \in GuardedFeatures THEN {"store"}
    ELSE IF op = "reply_to_line" THEN {"reply"}
    ELSE {}

(* the calls handle_message makes in a try of its own: track_user, and    *)
(* the reply_to_line at its end (the replies to an empty text, to a rate  *)
(* limited sender and to the how-to button are sent outside of it)        *)
InTry(op, reply) ==
    \/ op = "track_user"
    \/ /\ op = "reply_to_line"
       /\ reply.kind \notin {"INVALID_MESSAGE", "RATE_LIMITED", "BAN_NOTICE", "HOMEWORK_HOWTO"}

(* A call that lets the failure of what it reaches through, unless        *)
(* handle_message calls it in a try.                                      *)
EndsUnguarded(op, reply, faults) ==
    IF Reaches(op) \cap faults = {} \/ InTry(op, reply) THEN "returns" ELSE "raises"

(* how a call made by handle_message ends while the collaborators in      *)
(* faults fail                                                            *)
Ends(op, reply, faults) ==
    IF \/ Reaches(op) \cap faults = {}
       \/ op \in GuardedBroadcast \cup GuardedFeatures \cup GuardedReply
       \/ InTry(op, reply)
    THEN "returns" ELSE "raises"

(* a run of handle_message while the collaborators in faults fail: it     *)
(* ends at the first call that raises, if one does                        *)
Despite(r, faults) ==
    LET escapes == {i \in DOMAIN r.calls : Ends(r.calls[i], r.reply, faults) = "raises"}
        first == CHOOSE i \in escapes : \A j \in escapes : i <= j
    IN IF escapes = {} THEN r
       ELSE [r EXCEPT !.calls = SubSeq(@, 1, first), !.raised = TRUE]

(* the collaborators the calls of a run reach *)
Reached(r) == UNION {Reaches(r.calls[i]) : i \in DOMAIN r.calls}

InitFaults ==
    /\ impl \in DispatchImpls
    /\ InitState

(* one inbound text message is handled while some of the collaborators    *)
(* it reaches fail                                                        *)
HandleDespite(u, user_text) ==
    /\ handled < MaxHandled
    /\ \E in \in Inputs(u, user_text) :
          \E run \in {handle_message(u, user_text, in, now, _user_message_history, _banned_users)} :
             \E faults \in SUBSET (Collaborators \cap Reached(run)) :
                \E r \in {Despite(run, faults)} :
                   /\ _user_message_history' = r.history
                   /\ _banned_users' = r.banned
                   /\ now' = r.now
                   /\ hm' = [user |-> u, text |-> user_text, calls |-> r.calls,
                             reply |-> r.reply, prompt |-> r.prompt, raised |-> r.raised,
                             tier |-> r.tier,
                             handler |-> IF Called(r.calls, "call_action") THEN in.handler ELSE "",
                             ai |-> IF Called(r.calls, "get_gemini_response") THEN in.ai ELSE "",
                             faults |-> faults]
    /\ handled' = handled + 1
    /\ UNCHANGED <<impl, RATE_LIMIT_MAX, RATE_LIMIT_WINDOW, ticks>>
    /\ UNCHANGED <<tvars, bvars, ivars, rvars>>

NextFaults ==
    \E u \in Users, user_text \in Texts : HandleDespite(u, user_text)

SpecFaults == InitFaults /\ [][NextFaults]_vars

(* the collaborators that failed while the last message was handled, the  *)
(* rule handler and the model among them                                  *)
Failed ==
    hm.faults \cup (IF hm.handler \in {"raises", "raises TypeError"} THEN {"handler"} ELSE {})
              \cup (IF hm.ai = "raises" THEN {"ai"} ELSE {})

---------------------------------------------------------------------------
(* Part 14.  broadcast.py: track_user and the is_active flag              *)

(* track_user and get_all_users are called at most this many times *)
MaxDirectoryCalls == 3

(* the ids a document of 'users' can have here, and what the collection   *)
(* holds for an id: no document, or one whose is_active is True or False  *)
DirectoryIds == {"U1", "U2", "U3"}
Flags == {"absent", "active", "inactive"}

(* where('is_active', '==', True) *)
Active(docs) == {r \in DOMAIN docs : docs[r] = "active"}

(* A set that leaves the is_active of an existing document alone. *)
set_merge_keeps_flag(docs, u) == [docs EXCEPT ![u] = IF @ = "absent" THEN "active" ELSE @]

(* user_ref.set({..., 'is_active': True}, merge=True): the document is    *)
(* created, or its fields are overwritten, is_active among them           *)
set_merge(docs, u) == [docs EXCEPT ![u] = "active"]

(* the collection holds any documents, some of them flagged inactive *)
InitCollection ==
    /\ impl = "handlers_optimized"
    /\ InitHandlers
    /\ db \in BOOLEAN
    /\ line_api = TRUE
    /\ InitDirectory
    /\ InitWorkers
    /\ probe = NoProbe
    /\ act = NoAct
    /\ send = NoSend
    /\ pool = NoPool
    /\ reminder = NoReminder
    /\ collection \in {[NoCollection EXCEPT !.docs = docs] : docs \in [DirectoryIds -> Flags]}

(* track_user(user_id): False without a database; True once the document  *)
(* is set; False when the set raises                                      *)
TrackRecipient(u, outcome) ==
    /\ collection.tracks + collection.reads < MaxDirectoryCalls
    /\ collection' = [collection EXCEPT
                         !.tracks = @ + 1,
                         !.user = u,
                         !.before = collection.docs[u],
                         !.ret = (outcome = "recorded"),
                         !.docs = IF outcome = "recorded" THEN set_merge(@, u) ELSE @,
                         !.successes = IF outcome = "recorded" THEN @ \cup {u} ELSE @]
    /\ UNCHANGED <<svars, tvars, dvars, bvars, ivars, probe, ButCollection>>

(* get_all_users(), as broadcast_message calls it for the list it pushes  *)
(* to: the user_id of the documents whose is_active is True               *)
GetAllUsers(read_ok) ==
    /\ collection.tracks + collection.reads < MaxDirectoryCalls
    /\ collection' = [collection EXCEPT
                         !.reads = @ + 1,
                         !.read_ok = read_ok,
                         !.due = collection.successes,
                         !.user_ids = get_all_users(db, Active(collection.docs), read_ok)]
    /\ UNCHANGED <<svars, tvars, dvars, bvars, ivars, probe, ButCollection>>

NextCollection ==
    \/ \E u \in DirectoryIds, outcome \in TrackOutcomes(db) : TrackRecipient(u, outcome)
    \/ \E read_ok \in BOOLEAN : GetAllUsers(read_ok)

SpecCollection == InitCollection /\ [][NextCollection]_vars

(* the ids get_all_users returned last *)
Listed == {collection.user_ids[i] : i \in DOMAIN collection.user_ids}

(* C38: every recipient a track_user has returned True for is active,     *)
(* whatever its is_active was before, and a get_all_users whose read      *)
(* succeeds after it returns the recipient: the list broadcast_message    *)
(* pushes to; no call turns an active recipient inactive or removes a     *)
(* document.                                                              *)
C38_TrackedIsActiveAgain ==
    /\ [](\A u \in collection.successes : collection.docs[u] = "active")
    /\ []((collection.reads > 0 /\ collection.read_ok) => collection.due \subseteq Listed)
    /\ [][\A r \in DOMAIN collection.docs :
              /\ collection.docs[r] # "absent" => collection'.docs[r] # "absent"
              /\ collection.docs[r] = "active" => collection'.docs[r] = "active"]_vars

(* track_user returned True for a recipient that was inactive, and the    *)
(* get_all_users after it returned the recipient                          *)
C38_Witness ==
    /\ collection.ret
    /\ collection.before = "inactive"
    /\ collection.reads > 0
    /\ collection.read_ok
    /\ collection.user \in collection.due
    /\ collection.user \in Listed

====
